---------------------------- MODULE Spec2Model ----------------------------
(***************************************************************************)
(* The paginated resource-manager screens of the clinic administration     *)
(* dashboard: UserManagement (src/src/pages/UserManagement.tsx) and the    *)
(* paginated HospitalManagement (src/unnamed/part_003, lines 894-1684).    *)
(*                                                                         *)
(* One behaviour is one mounted screen.  Every event handler runs to       *)
(* completion up to its next `await`; each HTTP request is a record in     *)
(* `inflight` that the server answers and the client later receives, so    *)
(* responses may arrive in any order.  Strings the code inspects character *)
(* by character are sequences of one-character strings.                    *)
(*                                                                         *)
(* Spec is the whole screen.  SpecForm, SpecValidate, SpecPager, SpecList,  *)
(* SpecSearch, SpecSave and SpecDelete run one part of it from the states  *)
(* that part can start in, and SpecLive runs it over a network on which    *)
(* every request settles.  SpecShell runs the route guard                  *)
(* (src/unnamed/part_000) and the response interceptor                     *)
(* (src/unnamed/part_002) in front of the screen.  SpecLocal is the        *)
(* non-paginated HospitalManagement (src/unnamed/part_003, lines 9-892)    *)
(* and SpecInvite the AcceptInvitation page; they use the same variables   *)
(* for the state they share by name with the paginated screens.            *)
(***************************************************************************)
EXTENDS Integers, Sequences, FiniteSets, TLC

VARIABLES
    screen,            \* "user" | "hospital" | "invitation": which screen is mounted
    records,           \* users / hospitals: the rows of the table
    totalCount,
    currentPage,
    isLoading,
    error,
    searchTerm,
    selectedHospital,  \* UserManagement only: the hospital filter ('' is 0)
    hospitalOptions,   \* UserManagement only: `hospitals`, the dropdown list
    isModalOpen,
    editing,           \* editingUser / editingHospital: <<>> is null, <<row>> a row
    formData,
    validation,
    timers,            \* pending setTimeout callbacks of the debounce effect
    inflight,          \* HTTP requests issued and not yet settled at the client
    nextReq,           \* sequence number of the next request
    resume,            \* handler continuation waiting behind `await fetchX()`
    dropdown,          \* UserManagement only: the mount-time GET /hospital?limit=100
    unhandled,         \* a rejection left some handler uncaught
    db,                \* the server's rows of the resource, in id order
    nextId,            \* the server's next fresh id
    shown,             \* sequence number of the fetch whose response is displayed
    sinceChange,       \* ms since the last search/filter change (saturates)
    openedBy,          \* how the open modal was opened ("none" | "create" | "edit")
                       \* and the id of the row whose Edit button opened it
    lastEvent,         \* the step taken last, when the state does not tell: the
                       \* outcome of a validation, the answer to a prompt, a
                       \* rejection; else "other"
    guardLoading,      \* ProtectedRoute: isLoading, the session check is pending
    isAuthenticated,   \* ProtectedRoute: isAuthenticated
    location,          \* the address the browser shows: the protected route or /signin
    alerts,            \* the texts window.alert has shown, oldest first
    requestCap         \* the number of requests the exploration lets a session issue

vars == <<screen, records, totalCount, currentPage, isLoading, error, searchTerm,
          selectedHospital, hospitalOptions, isModalOpen, editing, formData,
          validation, timers, inflight, nextReq, resume, dropdown, unhandled,
          db, nextId, shown, sinceChange, openedBy, lastEvent, guardLoading,
          isAuthenticated, location, alerts, requestCap>>

shellVars == <<guardLoading, isAuthenticated, location, alerts>>

-----------------------------------------------------------------------------
(* Bounds of the exploration *)

\* HTTP requests (list fetches and mutations) one session issues
MaxRequests == 3

\* the longest run of digits typed into a phone field
MaxPhoneDigits == 13

\* the longest list the pager is explored over, in pages
MaxPages == 12

\* rows the server holds when the screen mounts
InitialRecords == 11

\* requests a session issues where saves overlap other requests
MaxSessionRequests == 5

(* Program constants *)

itemsPerPage == 10

DebounceMs == 500

\* the clock advances in halves of the debounce delay
TickMs == DebounceMs \div 2

-----------------------------------------------------------------------------
(* Values *)

Null == "null"

Empty == <<>>

Digits == {"0", "1", "2", "3", "4", "5", "6", "7", "8", "9"}

Separators == {"-", "(", ")", " "}

Whitespace == {" "}

NameA == <<"A">>

NameB == <<"B">>

GoodEmail == <<"a", "@", "b", ".", "c">>

BadEmail == <<"a", "b">>

GoodPin == <<"1", "2", "3", "4", "5", "6">>

EightOClock == <<"0", "8", ":", "0", "0">>

HalfPastEight == <<"0", "8", ":", "3", "0">>

NineOClock == <<"0", "9", ":", "0", "0">>

Today == <<"2", "0", "2", "5", "-", "0", "1", "-", "0", "1">>

Stamp == <<"t">>

NoHospital == [id |-> 0, clinic_name |-> Empty]

HospitalOne == [id |-> 1, clinic_name |-> <<"C">>]

ErrLoad ==
    IF screen = "user" THEN "Error loading user data. Please try again later."
    ELSE "Error loading hospital data. Please try again later."

ErrSave ==
    IF screen = "user" THEN "Error saving user data. Please try again."
    ELSE "Error saving hospital data. Please try again."

ErrDelete ==
    IF screen = "user" THEN "Error deleting user. Please try again."
    ELSE "Error deleting hospital. Please try again."

ErrDropdown == "Error loading hospitals. Please try again later."

-----------------------------------------------------------------------------
(* String helpers *)

Range(s) == {s[i] : i \in DOMAIN s}

\* String.prototype.trim
RECURSIVE TrimLeft(_)
TrimLeft(s) ==
    IF s # Empty /\ Head(s) \in Whitespace THEN TrimLeft(Tail(s)) ELSE s

RECURSIVE TrimRight(_)
TrimRight(s) ==
    IF s # Empty /\ s[Len(s)] \in Whitespace
    THEN TrimRight(SubSeq(s, 1, Len(s) - 1))
    ELSE s

Trim(s) == TrimRight(TrimLeft(s))

\* s.replace(/[-()\s]/g, '')
StripSeparators(s) == SelectSeq(s, LAMBDA c : c \notin Separators)

\* /^\d{10,12}$/.test(s)
IsPhoneDigits(s) == Len(s) >= 10 /\ Len(s) <= 12 /\ Range(s) \subseteq Digits

\* fault: the pattern without its anchors, /\d{6}/
IsPinCodeUnanchored(s) ==
    \E i \in 1..(Len(s) - 5) : \A k \in i..(i + 5) : s[k] \in Digits

\* /^\d{6}$/.test(s)
IsPinCode(s) == Len(s) = 6 /\ Range(s) \subseteq Digits

\* /^[^\s@]+@[^\s@]+\.[^\s@]+$/.test(s)
IsEmail(s) ==
    LET plain(i, j) == i <= j /\ \A k \in i..j : s[k] \notin (Whitespace \cup {"@"})
    IN  \E a \in DOMAIN s : \E d \in DOMAIN s :
            /\ s[a] = "@"
            /\ s[d] = "."
            /\ plain(1, a - 1)
            /\ plain(a + 1, d - 1)
            /\ plain(d + 1, Len(s))

\* s.includes(t)
Includes(s, t) ==
    \E i \in 0..(Len(s) - Len(t)) : SubSeq(s, i + 1, i + Len(t)) = t

DigitValue(c) ==
    CASE c = "0" -> 0 [] c = "1" -> 1 [] c = "2" -> 2 [] c = "3" -> 3
      [] c = "4" -> 4 [] c = "5" -> 5 [] c = "6" -> 6 [] c = "7" -> 7
      [] c = "8" -> 8 [] c = "9" -> 9

\* new Date(`1970-01-01T${t}`).getTime() in minutes; -1 stands for NaN
ClockMinutes(t) ==
    IF /\ Len(t) = 5
       /\ t[3] = ":"
       /\ {t[1], t[2], t[4], t[5]} \subseteq Digits
       /\ DigitValue(t[1]) * 10 + DigitValue(t[2]) <= 23
       /\ DigitValue(t[4]) * 10 + DigitValue(t[5]) <= 59
    THEN (DigitValue(t[1]) * 10 + DigitValue(t[2])) * 60
         + DigitValue(t[4]) * 10 + DigitValue(t[5])
    ELSE -1

\* fault: a closing time equal to the opening time is let through
DateGt(from, to) ==
    ClockMinutes(from) # -1 /\ ClockMinutes(to) # -1
    /\ ClockMinutes(from) > ClockMinutes(to)

\* fromTime >= toTime on two Date objects (false when either is invalid)
DateGeq(from, to) ==
    ClockMinutes(from) # -1 /\ ClockMinutes(to) # -1
    /\ ClockMinutes(from) >= ClockMinutes(to)

-----------------------------------------------------------------------------
(* Form drafts and validation *)

initialFormDataUser ==
    [_id |-> 0, title |-> Empty, first_name |-> Empty, last_name |-> Empty,
     hospital_id |-> 0, hospital_details |-> NoHospital, gender |-> "Male",
     email_id |-> Empty, mobile_number |-> Empty, phone_number |-> Empty,
     qualification |-> Empty, designation |-> Empty, is_doctor |-> FALSE,
     color |-> "#000000", staff_status |-> "Active", set_availability |-> FALSE,
     user_role |-> Empty, is_admin |-> FALSE, photo |-> Empty]

\* getTodayDate() is the constant Today: the wall clock stands still in the model
initialFormDataHospital ==
    [registration_id |-> Empty, registration_date |-> Today, clinic_name |-> Empty,
     speciality |-> Empty, logo |-> Empty, email |-> Empty, address |-> Empty,
     address2 |-> Empty, pin_code |-> Empty, country |-> Empty, state |-> Empty,
     city |-> Empty, phone_number |-> Empty, mobile_number |-> Empty,
     working_hours_from |-> Empty, working_hours_to |-> Empty]

initialFormData ==
    IF screen = "user" THEN initialFormDataUser ELSE initialFormDataHospital

\* the `errors` object of UserManagement.validateForm, '' where no key is set
UserError(f, k) ==
    CASE k = "first_name" ->
            IF f.first_name = Empty THEN "First Name is required" ELSE ""
      [] k = "last_name" ->
            IF f.last_name = Empty THEN "Last Name is required" ELSE ""
      [] k = "hospital_id" ->
            IF f.hospital_id = 0 THEN "Hospital is required" ELSE ""
      [] k = "email_id" ->
            IF f.email_id = Empty THEN "Email is required"
            ELSE IF ~IsEmail(f.email_id) THEN "Please enter a valid email address"
            ELSE ""
      [] k = "phone_number" ->
            IF f.phone_number # Empty /\ ~IsPhoneDigits(StripSeparators(f.phone_number))
            THEN "Please enter a valid phone number" ELSE ""
      [] k = "mobile_number" ->
            IF f.mobile_number # Empty /\ ~IsPhoneDigits(StripSeparators(f.mobile_number))
            THEN "Please enter a valid mobile number" ELSE ""

UserErrorKeys ==
    {"first_name", "last_name", "hospital_id", "email_id", "phone_number",
     "mobile_number"}

\* the `errors` object of HospitalManagement.validateForm
HospitalError(f, k) ==
    CASE k = "clinic_name" ->
            IF f.clinic_name = Empty THEN "Clinic Name is required" ELSE ""
      [] k = "address" ->
            IF f.address = Empty THEN "Address is required" ELSE ""
      [] k = "pin_code" ->
            IF f.pin_code = Empty THEN "Pin Code is required"
            ELSE IF ~IsPinCode(f.pin_code) THEN "Pin Code must be a 6-digit number"
            ELSE ""
      [] k = "phone_number" ->
            IF f.phone_number # Empty /\ ~IsPhoneDigits(StripSeparators(f.phone_number))
            THEN "Please enter a valid phone number" ELSE ""
      [] k = "mobile_number" ->
            IF f.mobile_number # Empty /\ ~IsPhoneDigits(StripSeparators(f.mobile_number))
            THEN "Please enter a valid mobile number" ELSE ""
      [] k = "email" ->
            IF f.email # Empty /\ ~IsEmail(f.email)
            THEN "Please enter a valid email address" ELSE ""
      [] k = "working_hours_to" ->
            IF /\ f.working_hours_from # Empty
               /\ f.working_hours_to # Empty
               /\ DateGeq(f.working_hours_from, f.working_hours_to)
            THEN "Working Hours To must be later than Working Hours From" ELSE ""

HospitalErrorKeys ==
    {"clinic_name", "address", "pin_code", "phone_number", "mobile_number",
     "email", "working_hours_to"}

\* validateForm: the mapping it hands to setValidation
validateFormUser(f) ==
    [k \in {x \in UserErrorKeys : UserError(f, x) # ""} |-> UserError(f, k)]

validateFormHospital(f) ==
    [k \in {x \in HospitalErrorKeys : HospitalError(f, x) # ""} |-> HospitalError(f, k)]

\* fault: only the required-field checks, none of the format checks
validateFormRequiredOnly(f) ==
    LET keys == IF screen = "user"
                THEN {"first_name", "last_name", "hospital_id", "email_id"}
                ELSE {"clinic_name", "address", "pin_code"}
        empty(k) == IF k = "hospital_id" THEN f[k] = 0 ELSE f[k] = Empty
    IN  [k \in {x \in keys : empty(x)} |-> "required"]

validateForm(f) ==
    IF screen = "user" THEN validateFormUser(f) ELSE validateFormHospital(f)

\* fault: a submit that does not look at the errors
NoErrorsAlways(errors) == TRUE

\* Object.keys(errors).length === 0
NoErrors(errors) == DOMAIN errors = {}

NoValidation == [k \in {} |-> ""]

-----------------------------------------------------------------------------
(* Rows, request bodies and the REST server the screens talk to *)

RowId(row) == IF screen = "user" THEN row._id ELSE row.id

RowName(row) == IF screen = "user" THEN row.first_name ELSE row.clinic_name

Midnight == <<"T", "0", "0", ":", "0", "0", ":", "0", "0", ".", "0", "0", "0", "Z">>

IsDateOnly(s) ==
    /\ Len(s) = 10
    /\ s[5] = "-" /\ s[8] = "-"
    /\ \A i \in {1, 2, 3, 4, 6, 7, 9, 10} : s[i] \in Digits

IsDateTime(s) ==
    /\ Len(s) = 10 + Len(Midnight)
    /\ IsDateOnly(SubSeq(s, 1, 10))
    /\ SubSeq(s, 11, Len(s)) = Midnight

\* JSON.stringify(new Date(s)): the ISO instant, null (here '') for an invalid date
DateToJSON(s) ==
    IF IsDateOnly(s) THEN s \o Midnight
    ELSE IF IsDateTime(s) THEN s
    ELSE Empty

\* formData as handleEdit builds it from a row of the table
DraftOfUser(user) ==
    [_id |-> user._id, title |-> user.title, first_name |-> user.first_name,
     last_name |-> user.last_name, hospital_id |-> user.hospital_id,
     hospital_details |-> user.hospital_details, gender |-> user.gender,
     email_id |-> user.email_id, mobile_number |-> user.mobile_number,
     phone_number |-> user.phone_number, qualification |-> user.qualification,
     designation |-> user.designation, is_doctor |-> user.is_doctor,
     color |-> user.color, staff_status |-> user.staff_status,
     set_availability |-> user.set_availability, user_role |-> user.user_role,
     is_admin |-> user.is_admin, photo |-> user.photo]

DraftOfHospital(hospital) ==
    [registration_id |-> Empty, registration_date |-> hospital.registration_date,
     clinic_name |-> hospital.clinic_name, speciality |-> hospital.speciality,
     logo |-> hospital.logo, email |-> hospital.email, address |-> hospital.address,
     address2 |-> hospital.address2, pin_code |-> hospital.pin_code,
     country |-> hospital.country, state |-> hospital.state, city |-> hospital.city,
     phone_number |-> hospital.phone_number,
     mobile_number |-> hospital.mobile_number,
     working_hours_from |-> hospital.working_hours_from,
     working_hours_to |-> hospital.working_hours_to]

\* fault: a draft that leaves the name of the row behind
DraftOfBlankName(row) ==
    IF screen = "user"
    THEN [DraftOfUser(row) EXCEPT !.first_name = Empty]
    ELSE [DraftOfHospital(row) EXCEPT !.clinic_name = Empty]

DraftOf(row) == IF screen = "user" THEN DraftOfUser(row) ELSE DraftOfHospital(row)

\* hospitalData, the body handleSubmit of HospitalManagement sends
hospitalData(f) ==
    [registration_date |-> DateToJSON(f.registration_date),
     clinic_name |-> f.clinic_name, speciality |-> f.speciality, logo |-> f.logo,
     email |-> f.email, address |-> f.address, address2 |-> f.address2,
     pin_code |-> f.pin_code, country |-> f.country, state |-> f.state,
     city |-> f.city, phone_number |-> f.phone_number,
     mobile_number |-> f.mobile_number,
     working_hours_from |-> f.working_hours_from,
     working_hours_to |-> f.working_hours_to]

\* the body of POST and PUT
SubmitBody(f) == IF screen = "user" THEN f ELSE hospitalData(f)

\* the row the server stores for a body
UserRowOf(id, body) ==
    [_id |-> id, title |-> body.title, first_name |-> body.first_name,
     last_name |-> body.last_name, hospital_id |-> body.hospital_id,
     hospital_details |-> IF body.hospital_id = 1 THEN HospitalOne ELSE NoHospital,
     gender |-> body.gender, email_id |-> body.email_id,
     mobile_number |-> body.mobile_number, phone_number |-> body.phone_number,
     qualification |-> body.qualification, designation |-> body.designation,
     is_doctor |-> body.is_doctor, color |-> body.color,
     staff_status |-> body.staff_status,
     set_availability |-> body.set_availability, user_role |-> body.user_role,
     is_admin |-> body.is_admin, photo |-> body.photo,
     createdAt |-> Stamp, updatedAt |-> Stamp]

HospitalRowOf(id, body) ==
    [id |-> id, registration_id |-> <<"R">>,
     registration_date |-> body.registration_date,
     clinic_name |-> body.clinic_name, speciality |-> body.speciality,
     logo |-> body.logo, email |-> body.email, address |-> body.address,
     address2 |-> body.address2, pin_code |-> body.pin_code,
     country |-> body.country, state |-> body.state, city |-> body.city,
     phone_number |-> body.phone_number, mobile_number |-> body.mobile_number,
     working_hours_from |-> body.working_hours_from,
     working_hours_to |-> body.working_hours_to,
     createdAt |-> Stamp, updatedAt |-> Stamp]

RowOf(id, body) ==
    IF screen = "user" THEN UserRowOf(id, body) ELSE HospitalRowOf(id, body)

\* the rows on the server at mount: all named A but the last but one, named B
SeedBody(scr, name) ==
    IF scr = "user"
    THEN [initialFormDataUser EXCEPT !.first_name = name, !.last_name = NameA,
                                     !.hospital_id = 1, !.email_id = GoodEmail]
    ELSE [registration_date |-> Today \o Midnight, clinic_name |-> name,
          speciality |-> Empty, logo |-> Empty, email |-> Empty,
          address |-> <<"S">>, address2 |-> Empty, pin_code |-> GoodPin,
          country |-> Empty, state |-> Empty, city |-> Empty,
          phone_number |-> Empty, mobile_number |-> Empty,
          working_hours_from |-> Empty, working_hours_to |-> Empty]

SeedRow(scr, id) ==
    LET name == IF id = InitialRecords - 1 THEN NameB ELSE NameA
    IN  IF scr = "user" THEN UserRowOf(id, SeedBody(scr, name))
        ELSE HospitalRowOf(id, SeedBody(scr, name))

SeedDb(scr) == [id \in 1..InitialRecords |-> SeedRow(scr, id)]

\* the server's filter for ?search= and ?hospital_id= (absent when '' / 0)
Matches(row, search, hospital) ==
    /\ search = Empty \/ Includes(RowName(row), search)
    /\ screen = "user" /\ hospital # 0 => row.hospital_id = hospital

Min(a, b) == IF a <= b THEN a ELSE b

\* the page of rows the server returns for GET ?page=&limit=&search=&hospital_id=
ServerPage(rows, page, limit, search, hospital) ==
    LET hits == SelectSeq(rows, LAMBDA row : Matches(row, search, hospital))
        from == (page - 1) * limit + 1
        to   == Min(page * limit, Len(hits))
    IN  [rows |-> IF from <= to THEN SubSeq(hits, from, to) ELSE <<>>,
         totalCount |-> Len(hits)]

HasRow(rows, id) == \E i \in DOMAIN rows : RowId(rows[i]) = id

-----------------------------------------------------------------------------
(* What the user can type and click in one session *)

SearchTerms == {Empty, NameA}

UserTextInputs ==
    {<<"first_name", NameA>>, <<"last_name", NameA>>, <<"email_id", GoodEmail>>}

HospitalTextInputs ==
    {<<"clinic_name", NameA>>, <<"address", <<"S">>>>, <<"pin_code", GoodPin>>}

\* the user fills the required fields from the top of the form down
FormOrder ==
    IF screen = "user" THEN <<"first_name", "last_name", "hospital_id", "email_id">>
    ELSE <<"clinic_name", "address", "pin_code">>

Filled(name) ==
    IF name = "hospital_id" THEN formData[name] # 0 ELSE formData[name] # Empty

FieldReady(name) ==
    IF name \in Range(FormOrder)
    THEN \A i \in DOMAIN FormOrder :
            FormOrder[i] = name => \A j \in 1..(i - 1) : Filled(FormOrder[j])
    ELSE \A i \in DOMAIN FormOrder : Filled(FormOrder[i])

TextInputs ==
    {input \in (IF screen = "user" THEN UserTextInputs ELSE HospitalTextInputs) :
        FieldReady(input[1])}

\* the Select boxes of the user form: hospital_id offers the loaded hospitals
SelectInputs ==
    IF screen = "user"
    THEN {input \in {<<"hospital_id", hospitalOptions[i].id>> : i \in DOMAIN hospitalOptions} :
            FieldReady(input[1])}
    ELSE {}

\* the row whose Edit and Delete buttons the user clicks: the last of the table
ClickPositions(rows) == {i \in DOMAIN rows : i = Len(rows)}

-----------------------------------------------------------------------------
(* Initial state: the component has mounted and its effects have run *)

\* fault: the effect without its cleanup, so the earlier timeouts stay pending
DebounceTimersKeep(pending, search, hospital) ==
    pending \cup {[left |-> DebounceMs, search |-> search, hospital |-> hospital]}

\* useEffect([searchTerm, selectedHospital]): the cleanup clears the pending
\* timeout, the body schedules fetchX(1) over the values of this render
DebounceTimers(pending, search, hospital) ==
    {[left |-> DebounceMs, search |-> search, hospital |-> hospital]}

\* the route the guard protects
Protected == "/"

SignIn == "/signin"

\* ProtectedRoute has let the screen mount: the session check returned 200
Admitted ==
    /\ guardLoading = FALSE
    /\ isAuthenticated = TRUE
    /\ location = Protected
    /\ alerts = <<>>

Init ==
    /\ Admitted
    /\ requestCap = MaxRequests
    /\ screen \in {"user", "hospital"}
    /\ records = <<>>
    /\ totalCount = 0
    /\ currentPage = 1
    /\ isLoading = FALSE
    /\ error = Null
    /\ searchTerm = Empty
    /\ selectedHospital = 0
    /\ hospitalOptions = <<>>
    /\ isModalOpen = FALSE
    /\ editing = <<>>
    /\ formData = initialFormData
    /\ validation = NoValidation
    /\ timers = DebounceTimers({}, Empty, 0)
    /\ inflight = {}
    /\ nextReq = 1
    /\ resume = "none"
    /\ dropdown = IF screen = "user" THEN "pending" ELSE "none"
    /\ unhandled = FALSE
    /\ db = SeedDb(screen)
    /\ nextId = InitialRecords + 1
    /\ shown = 0
    /\ sinceChange = 0
    /\ openedBy = [how |-> "none", id |-> 0]
    /\ lastEvent = "other"

formVars == <<isModalOpen, editing, formData, validation, openedBy>>

listVars == <<records, totalCount, currentPage, shown>>

filterVars == <<searchTerm, selectedHospital, hospitalOptions, dropdown>>

serverVars == <<db, nextId>>

netVars == <<inflight, nextReq>>

\* requests issued so far plus those the pending timers and mutations will issue
Committed ==
    (nextReq - 1) + Cardinality(timers)
    + Cardinality({r \in inflight : r.method # "get"})

CanIssue(n) == Committed + n <= requestCap

\* the event loop is between tasks: no continuation is waiting to run
Quiet == resume = "none"

\* the modal overlay covers the page: the page behind it takes no clicks
PageActive == Quiet /\ ~isModalOpen

\* Math.ceil(totalCount / itemsPerPage)
totalPages == (totalCount + itemsPerPage - 1) \div itemsPerPage

\* fault: a window always centred on the current page, never clamped to the ends
PageNumbersCentred ==
    [i \in 1..Min(totalPages, 5) |->
        IF totalPages <= 5 THEN i ELSE currentPage - 3 + i]

\* the numbered page buttons, in render order
PageNumbers ==
    [i \in 1..Min(totalPages, 5) |->
        IF totalPages <= 5 THEN i
        ELSE IF currentPage <= 3 THEN i
        ELSE IF currentPage >= totalPages - 2 THEN totalPages - 5 + i
        ELSE currentPage - 3 + i]

\* the pages a click on an enabled pagination button asks for
PageButtons ==
    IF totalPages > 1
    THEN Range(PageNumbers)
         \cup (IF currentPage # 1 THEN {currentPage - 1} ELSE {})
         \cup (IF currentPage # totalPages THEN {currentPage + 1} ELSE {})
    ELSE {}

-----------------------------------------------------------------------------
(* The list controller: search, filter, debounce, pagination *)

Request(id, method, target, page, search, hospital, body, origin) ==
    [id |-> id, method |-> method, target |-> target, page |-> page,
     search |-> search, hospital |-> hospital, body |-> body, origin |-> origin,
     phase |-> "sent", resp |-> <<>>]

\* fetchUsers / fetchHospitals up to its await: the flags, then the GET with
\* search: searchTerm.trim() || undefined and hospital_id: selectedHospital || undefined
fetchStart(others, page, search, hospital, origin) ==
    /\ isLoading' = TRUE
    /\ error' = Null
    /\ inflight' = others \cup
            {Request(nextReq, "get", 0, page, Trim(search), hospital, <<>>, origin)}
    /\ nextReq' = nextReq + 1

\* onChange of the search box: setSearchTerm, then the debounce effect re-runs
SearchChange(term) ==
    /\ PageActive
    /\ term # searchTerm
    /\ Committed - Cardinality(timers)
         + Cardinality(DebounceTimers(timers, term, selectedHospital)) <= requestCap
    /\ searchTerm' = term
    /\ timers' = DebounceTimers(timers, term, selectedHospital)
    /\ sinceChange' = 0
    /\ lastEvent' = "other"
    /\ UNCHANGED <<shellVars, requestCap, screen, listVars, isLoading, error, selectedHospital,
                   hospitalOptions, dropdown, formVars, netVars, resume, unhandled,
                   serverVars>>

\* onChange of the hospital filter of UserManagement
FilterChange(hospital) ==
    /\ screen = "user"
    /\ PageActive
    /\ hospital # selectedHospital
    /\ Committed - Cardinality(timers)
         + Cardinality(DebounceTimers(timers, searchTerm, hospital)) <= requestCap
    /\ selectedHospital' = hospital
    /\ timers' = DebounceTimers(timers, searchTerm, hospital)
    /\ sinceChange' = 0
    /\ lastEvent' = "other"
    /\ UNCHANGED <<shellVars, requestCap, screen, listVars, isLoading, error, searchTerm,
                   hospitalOptions, dropdown, formVars, netVars, resume, unhandled,
                   serverVars>>

\* time passes while no timeout is due
Tick ==
    /\ Quiet
    /\ timers # {}
    /\ \A t \in timers : t.left >= TickMs
    /\ timers' = {[t EXCEPT !.left = @ - TickMs] : t \in timers}
    /\ sinceChange' = Min(DebounceMs, sinceChange + TickMs)
    /\ lastEvent' = "other"
    /\ UNCHANGED <<shellVars, requestCap, screen, listVars, isLoading, error, filterVars, formVars,
                   netVars, resume, unhandled, serverVars>>

\* fault: a debounced fetch that stays on the page the screen is on
DebounceFireCurrentPage(t) ==
    /\ Quiet
    /\ t \in timers
    /\ t.left = 0
    /\ timers' = timers \ {t}
    /\ fetchStart(inflight, currentPage, t.search, t.hospital, "debounce")
    /\ lastEvent' = "other"
    /\ UNCHANGED <<shellVars, requestCap, screen, listVars, filterVars, formVars, resume, unhandled,
                   serverVars, sinceChange>>

\* the timeout callback: fetchX(1) over the render that scheduled it
DebounceFire(t) ==
    /\ Quiet
    /\ t \in timers
    /\ t.left = 0
    /\ timers' = timers \ {t}
    /\ fetchStart(inflight, 1, t.search, t.hospital, "debounce")
    /\ lastEvent' = "other"
    /\ UNCHANGED <<shellVars, requestCap, screen, listVars, filterVars, formVars, resume, unhandled,
                   serverVars, sinceChange>>

handlePageChange(page) ==
    /\ PageActive
    /\ page \in PageButtons
    /\ CanIssue(1)
    /\ currentPage' = page
    /\ fetchStart(inflight, page, searchTerm, selectedHospital, "page")
    /\ lastEvent' = "other"
    /\ UNCHANGED <<shellVars, requestCap, screen, records, totalCount, shown, filterVars, formVars,
                   timers, resume, unhandled, serverVars, sinceChange>>

\* the mount-time fetchHospitals of UserManagement resolves
DropdownLoaded ==
    /\ screen = "user"
    /\ Quiet
    /\ dropdown = "pending"
    /\ hospitalOptions' = <<HospitalOne>>
    /\ dropdown' = "loaded"
    /\ lastEvent' = "other"
    /\ UNCHANGED <<shellVars, requestCap, screen, listVars, isLoading, error, searchTerm,
                   selectedHospital, formVars, timers, netVars, resume, unhandled,
                   serverVars, sinceChange>>

\* ... or is rejected: its catch sets error and leaves isLoading alone
DropdownFailed ==
    /\ screen = "user"
    /\ Quiet
    /\ dropdown = "pending"
    /\ error' = ErrDropdown
    /\ dropdown' = "failed"
    /\ lastEvent' = "other"
    /\ UNCHANGED <<shellVars, requestCap, screen, listVars, isLoading, searchTerm, selectedHospital,
                   hospitalOptions, formVars, timers, netVars, resume, unhandled,
                   serverVars, sinceChange>>

-----------------------------------------------------------------------------
(* The form controller: modal, draft, validation, submit, delete *)

\* the Create button: setIsModalOpen(true)
OpenCreate ==
    /\ PageActive
    /\ isModalOpen' = TRUE
    /\ openedBy' = [how |-> "create", id |-> 0]
    /\ lastEvent' = "other"
    /\ UNCHANGED <<shellVars, requestCap, screen, listVars, isLoading, error, filterVars, editing,
                   formData, validation, timers, netVars, resume, unhandled,
                   serverVars, sinceChange>>

\* the table (and its Edit and Delete buttons) is rendered
TableShown == ~isLoading /\ error = Null

handleEdit(row) ==
    /\ editing' = <<row>>
    /\ formData' = DraftOf(row)
    /\ validation' = NoValidation
    /\ isModalOpen' = TRUE

ClickEdit(i) ==
    /\ PageActive
    /\ TableShown
    /\ i \in ClickPositions(records)
    /\ handleEdit(records[i])
    /\ openedBy' = [how |-> "edit", id |-> RowId(records[i])]
    /\ lastEvent' = "other"
    /\ UNCHANGED <<shellVars, requestCap, screen, listVars, isLoading, error, filterVars, timers,
                   netVars, resume, unhandled, serverVars, sinceChange>>

handleInputChange(name, value) ==
    /\ Quiet
    /\ isModalOpen
    /\ formData[name] # value
    /\ formData' = [formData EXCEPT ![name] = value]
    /\ validation' =
         IF name \in DOMAIN validation /\ validation[name] # ""
         THEN [validation EXCEPT ![name] = ""]
         ELSE validation
    /\ lastEvent' = "other"
    /\ UNCHANGED <<shellVars, requestCap, screen, listVars, isLoading, error, filterVars, isModalOpen,
                   editing, openedBy, timers, netVars, resume, unhandled,
                   serverVars, sinceChange>>

handleSelectChange(name, value) ==
    /\ Quiet
    /\ isModalOpen
    /\ formData[name] # value
    /\ formData' = [formData EXCEPT ![name] = value]
    /\ lastEvent' = "other"
    /\ UNCHANGED <<shellVars, requestCap, screen, listVars, isLoading, error, filterVars, isModalOpen,
                   editing, validation, openedBy, timers, netVars, resume,
                   unhandled, serverVars, sinceChange>>

handleCheckboxChange(name, checked) ==
    /\ Quiet
    /\ isModalOpen
    /\ formData[name] # checked
    /\ formData' = [formData EXCEPT ![name] = checked]
    /\ lastEvent' = "other"
    /\ UNCHANGED <<shellVars, requestCap, screen, listVars, isLoading, error, filterVars, isModalOpen,
                   editing, validation, openedBy, timers, netVars, resume,
                   unhandled, serverVars, sinceChange>>

\* setValidation(prev => ({...prev, [name]: message}))
SetMessage(messages, name, message) ==
    [k \in DOMAIN messages \cup {name} |->
        IF k = name THEN message ELSE messages[k]]

\* validation[name], '' standing for undefined too
MessageOf(messages, name) ==
    IF name \in DOMAIN messages THEN messages[name] ELSE ""

\* onChange of the TimePicker of working_hours_from: time is the HH:MM of
\* time.toTimeString().split(' ')[0].substring(0, 5)
TimeFromChange(time) ==
    /\ screen = "hospital"
    /\ Quiet
    /\ isModalOpen
    /\ formData.working_hours_from # time
    /\ formData' = [formData EXCEPT !.working_hours_from = time]
    /\ validation' =
         IF MessageOf(validation, "working_hours_to") # ""
         THEN SetMessage(validation, "working_hours_to", "")
         ELSE validation
    /\ lastEvent' = "other"
    /\ UNCHANGED <<shellVars, requestCap, screen, listVars, isLoading, error, filterVars, isModalOpen,
                   editing, openedBy, timers, netVars, resume, unhandled,
                   serverVars, sinceChange>>

\* onChange of the TimePicker of working_hours_to
TimeToChange(time) ==
    /\ screen = "hospital"
    /\ Quiet
    /\ isModalOpen
    /\ formData.working_hours_to # time
    /\ formData' = [formData EXCEPT !.working_hours_to = time]
    /\ validation' =
         IF formData.working_hours_from # Empty /\ time # Empty
         THEN IF DateGeq(formData.working_hours_from, time)
              THEN SetMessage(validation, "working_hours_to",
                       "Working Hours To must be later than Working Hours From")
              ELSE SetMessage(validation, "working_hours_to", "")
         ELSE validation
    /\ lastEvent' = "other"
    /\ UNCHANGED <<shellVars, requestCap, screen, listVars, isLoading, error, filterVars, isModalOpen,
                   editing, openedBy, timers, netVars, resume, unhandled,
                   serverVars, sinceChange>>

\* fault: a close that leaves the draft in place
handleCloseModalKeepDraft ==
    /\ isModalOpen' = FALSE
    /\ editing' = <<>>
    /\ formData' = formData
    /\ validation' = NoValidation

handleCloseModal ==
    /\ isModalOpen' = FALSE
    /\ editing' = <<>>
    /\ formData' = initialFormData
    /\ validation' = NoValidation

\* Cancel, the close button or Escape
ClickCancel ==
    /\ Quiet
    /\ isModalOpen
    /\ handleCloseModal
    /\ openedBy' = [how |-> "none", id |-> 0]
    /\ lastEvent' = "other"
    /\ UNCHANGED <<shellVars, requestCap, screen, listVars, isLoading, error, filterVars, timers,
                   netVars, resume, unhandled, serverVars, sinceChange>>

\* fault: a submit that creates even when a row is being edited
SubmitRequestPost(id) ==
    Request(id, "post", 0, currentPage, searchTerm, selectedHospital,
            <<SubmitBody(formData)>>, "submit")

\* the request handleSubmit sends; page, search and hospital are the values of
\* its render, which the fetchX() after the await will use
SubmitRequest(id) ==
    IF editing # <<>>
    THEN Request(id, "put", RowId(editing[1]), currentPage, searchTerm,
                 selectedHospital, <<SubmitBody(formData)>>, "submit")
    ELSE Request(id, "post", 0, currentPage, searchTerm, selectedHospital,
                 <<SubmitBody(formData)>>, "submit")

\* Save is disabled while isLoading
handleSubmit ==
    /\ Quiet
    /\ isModalOpen
    /\ ~isLoading
    /\ validation' = validateForm(formData)
    /\ \/ /\ ~NoErrors(validateForm(formData))
          /\ lastEvent' = "submitInvalid"
          /\ UNCHANGED <<isLoading, error, netVars>>
       \/ /\ NoErrors(validateForm(formData))
          /\ CanIssue(2)
          /\ isLoading' = TRUE
          /\ error' = Null
          /\ inflight' = inflight \cup {SubmitRequest(nextReq)}
          /\ nextReq' = nextReq + 1
          /\ lastEvent' = "submitValid"
    /\ UNCHANGED <<shellVars, requestCap, screen, listVars, filterVars, isModalOpen, editing, formData,
                   openedBy, timers, resume, unhandled, serverVars, sinceChange>>

\* fault: a delete that does not wait for the answer
windowConfirmAlways(answer) == TRUE

\* window.confirm(...): the user's answer
windowConfirm(answer) == answer

handleDelete(id, answer) ==
    \/ /\ ~windowConfirm(answer)
       /\ UNCHANGED <<isLoading, error, netVars>>
    \/ /\ windowConfirm(answer)
       /\ CanIssue(2)
       /\ isLoading' = TRUE
       /\ error' = Null
       /\ inflight' = inflight \cup
             {Request(nextReq, "delete", id, currentPage, searchTerm,
                      selectedHospital, <<>>, "delete")}
       /\ nextReq' = nextReq + 1

ClickDelete(i, answer) ==
    /\ PageActive
    /\ TableShown
    /\ i \in ClickPositions(records)
    /\ handleDelete(RowId(records[i]), answer)
    /\ lastEvent' = IF answer THEN "confirmAccepted" ELSE "confirmDeclined"
    /\ UNCHANGED <<shellVars, requestCap, screen, listVars, filterVars, formVars, timers, resume,
                   unhandled, serverVars, sinceChange>>

-----------------------------------------------------------------------------
(* The server and the network *)

\* 2xx statuses axios resolves with; handleSubmit re-fetches on 200 and 201 only
SuccessStatuses == {200, 201, 204}

Answered(r, resp) == [r EXCEPT !.phase = "answered", !.resp = <<resp>>]

Failed(r) == [r EXCEPT !.phase = "failed"]

ReplaceRow(rows, id, row) ==
    [i \in DOMAIN rows |-> IF RowId(rows[i]) = id THEN row ELSE rows[i]]

RemoveRow(rows, id) == SelectSeq(rows, LAMBDA row : RowId(row) # id)

\* the server takes a request off the wire and commits its answer
ServerHandle(r) ==
    /\ Quiet
    /\ r \in inflight
    /\ r.phase = "sent"
    /\ lastEvent' = "other"
    /\ \/ /\ r.method = "get"
          /\ LET found == ServerPage(db, r.page, itemsPerPage, r.search, r.hospital)
             IN  inflight' = (inflight \ {r}) \cup
                     {Answered(r, [status |-> 200, rows |-> found.rows,
                                   totalCount |-> found.totalCount,
                                   page |-> r.page])}
          /\ UNCHANGED serverVars
       \/ /\ r.method = "post"
          /\ \E status \in SuccessStatuses :
                inflight' = (inflight \ {r}) \cup
                    {Answered(r, [status |-> status, rows |-> <<>>,
                                  totalCount |-> 0, page |-> 0])}
          /\ db' = Append(db, RowOf(nextId, r.body[1]))
          /\ nextId' = nextId + 1
       \/ /\ r.method = "put"
          /\ HasRow(db, r.target)
          /\ \E status \in SuccessStatuses :
                inflight' = (inflight \ {r}) \cup
                    {Answered(r, [status |-> status, rows |-> <<>>,
                                  totalCount |-> 0, page |-> 0])}
          /\ db' = ReplaceRow(db, r.target, RowOf(r.target, r.body[1]))
          /\ UNCHANGED nextId
       \/ /\ r.method = "delete"
          /\ HasRow(db, r.target)
          /\ inflight' = (inflight \ {r}) \cup
                {Answered(r, [status |-> 200, rows |-> <<>>, totalCount |-> 0,
                              page |-> 0])}
          /\ db' = RemoveRow(db, r.target)
          /\ UNCHANGED nextId
       \/ /\ r.method \in {"put", "delete"}
          /\ ~HasRow(db, r.target)
          /\ inflight' = (inflight \ {r}) \cup {Failed(r)}
          /\ UNCHANGED serverVars
    /\ UNCHANGED <<shellVars, requestCap, screen, listVars, isLoading, error, filterVars, formVars,
                   timers, nextReq, resume, unhandled, sinceChange>>

-----------------------------------------------------------------------------
(* Handlers resumed by a settled request *)

\* fault: an answer without rows is taken for a failure
fetchApplyEmptyIsError(r) ==
    /\ records' = r.resp[1].rows
    /\ totalCount' = r.resp[1].totalCount
    /\ currentPage' = IF r.resp[1].page # 0 THEN r.resp[1].page ELSE r.page
    /\ shown' = r.id
    /\ error' = IF r.resp[1].rows = <<>> THEN ErrLoad ELSE error

\* fetchX after its await resolved: setUsers(data?.data?.users || []),
\* setTotalCount(data?.data?.totalCount || 0), setCurrentPage(data?.data?.page || page)
fetchApply(r) ==
    /\ records' = r.resp[1].rows
    /\ totalCount' = r.resp[1].totalCount
    /\ currentPage' = IF r.resp[1].page # 0 THEN r.resp[1].page ELSE r.page
    /\ shown' = r.id
    /\ UNCHANGED error

\* fault: a catch that empties the table
fetchCatchClear ==
    /\ error' = ErrLoad
    /\ records' = <<>>
    /\ totalCount' = 0
    /\ UNCHANGED <<currentPage, shown, unhandled>>

\* the catch block of fetchX
fetchCatch ==
    /\ error' = ErrLoad
    /\ UNCHANGED <<records, totalCount, currentPage, shown, unhandled>>

\* fault: a catch that closes the modal over the failed save
submitCatchClose ==
    /\ error' = ErrSave
    /\ handleCloseModal
    /\ openedBy' = [how |-> "none", id |-> 0]
    /\ UNCHANGED unhandled

\* the catch block of handleSubmit
submitCatch ==
    /\ error' = ErrSave
    /\ UNCHANGED <<formVars, unhandled>>

\* fault: a handler without its catch: the rejection escapes it
deleteCatchRethrow ==
    /\ unhandled' = TRUE
    /\ UNCHANGED error

\* the catch block of handleDelete
deleteCatch ==
    /\ error' = ErrDelete
    /\ UNCHANGED unhandled

\* the handler behind `await fetchX()`, if this fetch was called from one
Awaiter(r) == IF r.origin \in {"submit", "delete"} THEN r.origin ELSE "none"

\* a list fetch resolves: try body, then finally
FetchResolved(r) ==
    /\ Quiet
    /\ r \in inflight
    /\ r.method = "get"
    /\ r.phase = "answered"
    /\ fetchApply(r)
    /\ isLoading' = FALSE
    /\ inflight' = inflight \ {r}
    /\ resume' = Awaiter(r)
    /\ lastEvent' = "other"
    /\ UNCHANGED <<shellVars, requestCap, screen, filterVars, formVars, timers, nextReq, unhandled,
                   serverVars, sinceChange>>

\* fault: a fetch whose failure leaves the spinner on
FetchRejectedNoFinally(r) ==
    /\ Quiet
    /\ r \in inflight
    /\ r.method = "get"
    /\ fetchCatch
    /\ UNCHANGED isLoading
    /\ inflight' = inflight \ {r}
    /\ resume' = Awaiter(r)
    /\ lastEvent' = "fetchRejected"
    /\ UNCHANGED <<shellVars, requestCap, screen, filterVars, formVars, timers, nextReq,
                   serverVars, sinceChange>>

\* a list fetch is rejected (no connection, timeout, error status): catch, finally
FetchRejected(r) ==
    /\ Quiet
    /\ r \in inflight
    /\ r.method = "get"
    /\ fetchCatch
    /\ isLoading' = FALSE
    /\ inflight' = inflight \ {r}
    /\ resume' = Awaiter(r)
    /\ lastEvent' = "fetchRejected"
    /\ UNCHANGED <<shellVars, requestCap, screen, filterVars, formVars, timers, nextReq, serverVars,
                   sinceChange>>

\* response.status === 200 || response.status === 201
ShouldRefetch(status) == status \in {200, 201}

\* the POST or PUT of handleSubmit resolves
SubmitResolved(r) ==
    /\ Quiet
    /\ r \in inflight
    /\ r.method \in {"post", "put"}
    /\ r.phase = "answered"
    /\ lastEvent' = "other"
    /\ \/ /\ ShouldRefetch(r.resp[1].status)
          /\ fetchStart(inflight \ {r}, r.page, r.search, r.hospital, "submit")
          /\ UNCHANGED formVars
       \/ /\ ~ShouldRefetch(r.resp[1].status)
          /\ handleCloseModal
          /\ openedBy' = [how |-> "none", id |-> 0]
          /\ isLoading' = FALSE
          /\ inflight' = inflight \ {r}
          /\ UNCHANGED <<error, nextReq>>
    /\ UNCHANGED <<shellVars, requestCap, screen, listVars, filterVars, timers, resume, unhandled,
                   serverVars, sinceChange>>

\* the POST or PUT of handleSubmit is rejected: catch, finally
SubmitRejected(r) ==
    /\ Quiet
    /\ r \in inflight
    /\ r.method \in {"post", "put"}
    /\ submitCatch
    /\ isLoading' = FALSE
    /\ inflight' = inflight \ {r}
    /\ lastEvent' = "submitRejected"
    /\ UNCHANGED <<shellVars, requestCap, screen, listVars, filterVars, timers, nextReq, resume,
                   serverVars, sinceChange>>

\* the DELETE of handleDelete resolves: fetchX()
DeleteResolved(r) ==
    /\ Quiet
    /\ r \in inflight
    /\ r.method = "delete"
    /\ r.phase = "answered"
    /\ fetchStart(inflight \ {r}, r.page, r.search, r.hospital, "delete")
    /\ lastEvent' = "other"
    /\ UNCHANGED <<shellVars, requestCap, screen, listVars, filterVars, formVars, timers, resume,
                   unhandled, serverVars, sinceChange>>

\* the DELETE is rejected: catch, finally
DeleteRejected(r) ==
    /\ Quiet
    /\ r \in inflight
    /\ r.method = "delete"
    /\ deleteCatch
    /\ isLoading' = FALSE
    /\ inflight' = inflight \ {r}
    /\ lastEvent' = "deleteRejected"
    /\ UNCHANGED <<shellVars, requestCap, screen, listVars, filterVars, formVars, timers, nextReq,
                   resume, serverVars, sinceChange>>

\* handleSubmit after `await fetchX()`: handleCloseModal(), then finally;
\* handleDelete after `await fetchX()`: finally
Resume ==
    /\ resume # "none"
    /\ resume' = "none"
    /\ isLoading' = FALSE
    /\ \/ /\ resume = "submit"
          /\ handleCloseModal
          /\ openedBy' = [how |-> "none", id |-> 0]
          /\ lastEvent' = "other"
       \/ /\ resume = "delete"
          /\ lastEvent' = "other"
          /\ UNCHANGED formVars
    /\ UNCHANGED <<shellVars, requestCap, screen, listVars, error, filterVars, timers, netVars,
                   unhandled, serverVars, sinceChange>>

-----------------------------------------------------------------------------

Next ==
    \/ \E term \in SearchTerms : SearchChange(term)
    \/ \E hospital \in {0} \cup {hospitalOptions[i].id : i \in DOMAIN hospitalOptions} :
          FilterChange(hospital)
    \/ Tick
    \/ \E t \in timers : DebounceFire(t)
    \/ \E page \in PageButtons : handlePageChange(page)
    \/ DropdownLoaded
    \/ DropdownFailed
    \/ OpenCreate
    \/ \E i \in DOMAIN records : ClickEdit(i)
    \/ \E input \in TextInputs : handleInputChange(input[1], input[2])
    \/ \E input \in SelectInputs : handleSelectChange(input[1], input[2])
    \/ ClickCancel
    \/ handleSubmit
    \/ \E i \in DOMAIN records : \E answer \in BOOLEAN : ClickDelete(i, answer)
    \/ \E r \in inflight : ServerHandle(r)
    \/ \E r \in inflight : FetchResolved(r)
    \/ \E r \in inflight : FetchRejected(r)
    \/ \E r \in inflight : SubmitResolved(r)
    \/ \E r \in inflight : SubmitRejected(r)
    \/ \E r \in inflight : DeleteResolved(r)
    \/ \E r \in inflight : DeleteRejected(r)
    \/ Resume

Spec == Init /\ [][Next]_vars

-----------------------------------------------------------------------------
(* The form alone: a modal opened with Create, and every way of changing a field *)

FormTextInputs ==
    IF screen = "user"
    THEN {<<"first_name", NameA>>, <<"last_name", NameA>>, <<"email_id", GoodEmail>>,
          <<"email_id", BadEmail>>, <<"phone_number", <<"-">>>>}
    ELSE {<<"clinic_name", NameA>>, <<"address", <<"S">>>>, <<"pin_code", GoodPin>>,
          <<"email", BadEmail>>}

FormSelectInputs ==
    IF screen = "user"
    THEN {<<"hospital_id", hospitalOptions[i].id>> : i \in DOMAIN hospitalOptions}
         \cup {<<"staff_status", "Inactive">>}
    ELSE {}

FormCheckboxInputs ==
    IF screen = "user" THEN {<<"is_doctor", TRUE>>, <<"is_doctor", FALSE>>} ELSE {}

PickerTimes == {EightOClock, NineOClock}

\* the screen has mounted, the dropdown has loaded and Create was clicked
FormInit ==
    /\ Admitted
    /\ requestCap = MaxRequests
    /\ screen \in {"user", "hospital"}
    /\ records = <<>>
    /\ totalCount = 0
    /\ currentPage = 1
    /\ isLoading = FALSE
    /\ error = Null
    /\ searchTerm = Empty
    /\ selectedHospital = 0
    /\ hospitalOptions = IF screen = "user" THEN <<HospitalOne>> ELSE <<>>
    /\ isModalOpen = TRUE
    /\ editing = <<>>
    /\ formData = initialFormData
    /\ validation = NoValidation
    /\ timers = DebounceTimers({}, Empty, 0)
    /\ inflight = {}
    /\ nextReq = 1
    /\ resume = "none"
    /\ dropdown = IF screen = "user" THEN "loaded" ELSE "none"
    /\ unhandled = FALSE
    /\ db = SeedDb(screen)
    /\ nextId = InitialRecords + 1
    /\ shown = 0
    /\ sinceChange = 0
    /\ openedBy = [how |-> "create", id |-> 0]
    /\ lastEvent = "other"

FormNext ==
    \/ \E input \in FormTextInputs : handleInputChange(input[1], input[2])
    \/ \E input \in FormSelectInputs : handleSelectChange(input[1], input[2])
    \/ \E input \in FormCheckboxInputs : handleCheckboxChange(input[1], input[2])
    \/ \E time \in PickerTimes : TimeFromChange(time)
    \/ \E time \in PickerTimes : TimeToChange(time)
    \/ handleSubmit
    \/ \E r \in inflight : SubmitRejected(r)

SpecForm == FormInit /\ [][FormNext]_vars

-----------------------------------------------------------------------------
(* The pager alone: a loaded list of any length, standing on any of its pages *)

\* the totalCount values the server may report: full last pages and last pages of one row
PagerTotals ==
    {itemsPerPage * k : k \in 2..MaxPages}
        \cup {itemsPerPage * (k - 1) + 1 : k \in 2..MaxPages}

PagerDb(scr, count) == [id \in 1..count |-> SeedRow(scr, id)]

\* the list has been loaded and paged to currentPage by the requests before this
\* one; the dropdown has settled
PagerInit ==
    /\ Admitted
    /\ requestCap = MaxRequests
    /\ screen \in {"user", "hospital"}
    /\ totalCount \in PagerTotals
    /\ currentPage \in 1..totalPages
    /\ db = PagerDb(screen, totalCount)
    /\ nextId = totalCount + 1
    /\ records = ServerPage(db, currentPage, itemsPerPage, Empty, 0).rows
    /\ isLoading = FALSE
    /\ error = Null
    /\ searchTerm = Empty
    /\ selectedHospital = 0
    /\ hospitalOptions = IF screen = "user" THEN <<HospitalOne>> ELSE <<>>
    /\ isModalOpen = FALSE
    /\ editing = <<>>
    /\ formData = initialFormData
    /\ validation = NoValidation
    /\ timers = {}
    /\ inflight = {}
    /\ nextReq = MaxRequests
    /\ resume = "none"
    /\ dropdown = IF screen = "user" THEN "loaded" ELSE "none"
    /\ unhandled = FALSE
    /\ shown = nextReq - 1
    /\ sinceChange = 0
    /\ openedBy = [how |-> "none", id |-> 0]
    /\ lastEvent = "other"

PagerNext ==
    \/ \E page \in PageButtons : handlePageChange(page)
    \/ \E r \in inflight : ServerHandle(r)
    \/ \E r \in inflight : FetchResolved(r)
    \/ \E r \in inflight : FetchRejected(r)

SpecPager == PagerInit /\ [][PagerNext]_vars

-----------------------------------------------------------------------------
(* Validation alone: a Create modal holding any draft, and Save pressed on it *)

DigitChar(n) == CHOOSE c \in Digits : DigitValue(c) = n

DigitRun(n) == [i \in 1..n |-> DigitChar(i % 10)]

\* how many digits a typed phone number has: none, the ends of the accepted 10 to 12
\* and their neighbours, up to MaxPhoneDigits
PhoneLengths == {0, 9, 10, 12} \cup {MaxPhoneDigits}

\* what gets typed into a phone field: digits, bare or with separators in front,
\* behind or around the area code; n = 0 gives the strings made of separators only
PhoneStrings ==
    UNION {{DigitRun(n),
            <<"-">> \o DigitRun(n),
            DigitRun(n) \o <<" ">>,
            IF n >= 3
            THEN <<"(">> \o SubSeq(DigitRun(n), 1, 3) \o <<")", " ">>
                     \o SubSeq(DigitRun(n), 4, n)
            ELSE <<"(", ")">> \o DigitRun(n)} : n \in PhoneLengths}

PinCodes ==
    {Empty, GoodPin, <<"1", "2", "3", "4", "5">>,
     <<"1", "2", "3", "4", "5", "6", "7">>, <<"1", "2", "a", "4", "5", "6">>}

\* a TimePicker left alone, or set to 'HH:mm'
DraftTimes == {Empty, EightOClock, HalfPastEight, NineOClock}

UserDrafts ==
    {[initialFormDataUser EXCEPT !.first_name = first, !.last_name = last,
                                 !.hospital_id = hospital, !.email_id = email,
                                 !.phone_number = phone, !.mobile_number = mobile] :
        first \in {Empty, NameA}, last \in {Empty, NameA},
        hospital \in {0, HospitalOne.id}, email \in {Empty, GoodEmail, BadEmail},
        phone \in PhoneStrings, mobile \in {Empty, <<"(">>}}

HospitalDrafts ==
    {[initialFormDataHospital EXCEPT !.clinic_name = name, !.address = address,
                                     !.pin_code = pin, !.email = email,
                                     !.phone_number = phone, !.mobile_number = mobile,
                                     !.working_hours_from = from,
                                     !.working_hours_to = to] :
        name \in {Empty, NameA}, address \in {Empty, <<"S">>}, pin \in PinCodes,
        email \in {Empty, GoodEmail, BadEmail}, phone \in PhoneStrings,
        mobile \in {Empty, <<"(">>}, from \in DraftTimes, to \in DraftTimes}

ValidateInit ==
    /\ Admitted
    /\ requestCap = MaxRequests
    /\ screen \in {"user", "hospital"}
    /\ records = <<>>
    /\ totalCount = 0
    /\ currentPage = 1
    /\ isLoading = FALSE
    /\ error = Null
    /\ searchTerm = Empty
    /\ selectedHospital = 0
    /\ hospitalOptions = IF screen = "user" THEN <<HospitalOne>> ELSE <<>>
    /\ isModalOpen = TRUE
    /\ editing = <<>>
    /\ formData \in IF screen = "user" THEN UserDrafts ELSE HospitalDrafts
    /\ validation = NoValidation
    /\ timers = DebounceTimers({}, Empty, 0)
    /\ inflight = {}
    /\ nextReq = 1
    /\ resume = "none"
    /\ dropdown = IF screen = "user" THEN "loaded" ELSE "none"
    /\ unhandled = FALSE
    /\ db = SeedDb(screen)
    /\ nextId = InitialRecords + 1
    /\ shown = 0
    /\ sinceChange = 0
    /\ openedBy = [how |-> "create", id |-> 0]
    /\ lastEvent = "other"

ValidateNext == handleSubmit

SpecValidate == ValidateInit /\ [][ValidateNext]_vars

-----------------------------------------------------------------------------
(* The list alone: search, paging and the fetches they start, no modal *)

\* what the user types into the search box; no seeded name contains 'Z'
ListSearchTerms == SearchTerms \cup {<<"Z">>}

\* what the table area shows: spinner, error text, 'No Data Found' row or rows
View ==
    IF isLoading THEN "spinner"
    ELSE IF error # Null THEN "error"
    ELSE IF records = <<>> THEN "empty" ELSE "rows"

ListNext ==
    \/ \E term \in ListSearchTerms : SearchChange(term)
    \/ Tick
    \/ \E t \in timers : DebounceFire(t)
    \/ \E page \in PageButtons : handlePageChange(page)
    \/ \E r \in inflight : ServerHandle(r)
    \/ \E r \in inflight : FetchResolved(r)
    \/ \E r \in inflight : FetchRejected(r)

SpecList == Init /\ [][ListNext]_vars

-----------------------------------------------------------------------------
(* The shell: the route guard in front of the screens and the response      *)
(* interceptor of the axios instance every request goes through.  In the    *)
(* specifications above the guard has admitted the user and no response     *)
(* carries an error status the interceptor acts on.                         *)

NotAuthorized ==
    <<"Y", "o", "u", " ", "a", "r", "e", " ", "n", "o", "t", " ", "a", "u",
      "t", "h", "o", "r", "i", "z", "e", "d", " ", "t", "o", " ", "a", "c",
      "c", "e", "s", "s", " ", "t", "h", "i", "s", " ", "p", "a", "g", "e">>

BadRequest ==
    <<"B", "a", "d", " ", "R", "e", "q", "u", "e", "s", "t">>

UnknownError ==
    <<"U", "n", "k", "n", "o", "w", "n", " ", "e", "r", "r", "o", "r">>

\* error.response.data.errorMessage: <<>> when the body has none, else <<text>>
ErrorMessages ==
    {<<>>, <<Empty>>, <<<<"d", "o", "w", "n">>>>,
     <<<<"E", ":", " ", "d", "b", ":", " ", "d", "o", "w", "n", " ">>>>,
     <<<<"E", ":">>>>}

\* statuses axios rejects on; 404 stands for those the interceptor passes by
ErrorStatuses == {400, 401, 403, 404, 500}

\* data.statusCode of the session check; 0 when the body has none
BodyStatusCodes == {200, 401, 0}

\* errorMessage.split(':')
RECURSIVE SplitColon(_)
SplitColon(s) ==
    IF \E i \in DOMAIN s : s[i] = ":"
    THEN LET first == CHOOSE i \in DOMAIN s :
                          s[i] = ":" /\ \A j \in 1..(i - 1) : s[j] # ":"
         IN  <<SubSeq(s, 1, first - 1)>> \o SplitColon(SubSeq(s, first + 1, Len(s)))
    ELSE <<s>>

\* the 500 branch: errorData?.errorMessage || 'Unknown error', split, last, trim
FinalMessage(data) ==
    LET errorMessage == IF data = <<>> \/ data[1] = Empty THEN UnknownError ELSE data[1]
        errorParts   == SplitColon(errorMessage)
    IN  Trim(errorParts[Len(errorParts)])

\* fault: every status without a branch of its own is announced as a bad request
responseInterceptorAlertAll(status, data) ==
    /\ location' = IF status = 401 THEN SignIn ELSE location
    /\ alerts' = CASE status = 401 -> alerts
                   [] status = 403 -> Append(alerts, NotAuthorized)
                   [] status = 500 -> Append(alerts, FinalMessage(data))
                   [] OTHER -> Append(alerts, BadRequest)

\* the rejected branch of api.interceptors.response, before its Promise.reject
responseInterceptor(status, data) ==
    /\ location' = IF status = 401 THEN SignIn ELSE location
    /\ alerts' = CASE status = 403 -> Append(alerts, NotAuthorized)
                   [] status = 400 -> Append(alerts, BadRequest)
                   [] status = 500 -> Append(alerts, FinalMessage(data))
                   [] OTHER -> alerts

FailedWith(r, status, data) ==
    [r EXCEPT !.phase = "failed",
              !.resp = <<[status |-> status, errorMessage |-> data]>>]

\* the page is on screen: no redirect has unloaded it
PageRuns == location = Protected /\ ~guardLoading /\ isAuthenticated

\* the server answers a request with an error status: the interceptor acts and
\* returns Promise.reject(error), which the caller's catch receives later
ErrorResponse(r, status, data) ==
    /\ Quiet
    /\ location = Protected
    /\ r \in inflight
    /\ r.phase = "sent"
    /\ responseInterceptor(status, data)
    /\ inflight' = (inflight \ {r}) \cup {FailedWith(r, status, data)}
    /\ lastEvent' = "other"
    /\ UNCHANGED <<guardLoading, isAuthenticated, requestCap, screen, listVars, isLoading, error,
                   filterVars, formVars, timers, nextReq, resume, unhandled,
                   serverVars, sinceChange>>

\* GET /auth/adminvalidate is answered with a 2xx status
SessionAnswered(r, status, statusCode) ==
    /\ Quiet
    /\ r \in inflight
    /\ r.method = "validate"
    /\ r.phase = "sent"
    /\ inflight' = (inflight \ {r})
                        \cup {Answered(r, [status |-> status, statusCode |-> statusCode])}
    /\ lastEvent' = "other"
    /\ UNCHANGED <<shellVars, requestCap, screen, listVars, isLoading, error, filterVars,
                   formVars, timers, nextReq, resume, unhandled, serverVars,
                   sinceChange>>

\* what ProtectedRoute returns
Rendered ==
    IF guardLoading THEN "loading"
    ELSE IF isAuthenticated THEN "outlet" ELSE "navigate"

\* fault: any answer of the session check admits the user
validateUserResolvedAny(r) ==
    /\ Quiet
    /\ r \in inflight
    /\ r.method = "validate"
    /\ r.phase = "answered"
    /\ isAuthenticated' = TRUE
    /\ guardLoading' = FALSE
    /\ inflight' = inflight \ {r}
    /\ timers' = DebounceTimers({}, Empty, 0)
    /\ dropdown' = IF screen = "user" THEN "pending" ELSE "none"
    /\ lastEvent' = "other"
    /\ UNCHANGED <<location, alerts, requestCap, screen, listVars, isLoading, error, searchTerm,
                   selectedHospital, hospitalOptions, formVars, nextReq, resume,
                   unhandled, serverVars, sinceChange>>

\* validateUser after its await resolved, then finally; <Outlet /> mounts the
\* screen and its effects run, <Navigate to="/signin" replace /> leaves the route
validateUserResolved(r) ==
    /\ Quiet
    /\ r \in inflight
    /\ r.method = "validate"
    /\ r.phase = "answered"
    /\ isAuthenticated' = (r.resp[1].statusCode = 200)
    /\ guardLoading' = FALSE
    /\ inflight' = inflight \ {r}
    /\ IF r.resp[1].statusCode = 200
       THEN /\ timers' = DebounceTimers({}, Empty, 0)
            /\ dropdown' = IF screen = "user" THEN "pending" ELSE "none"
            /\ UNCHANGED location
       ELSE /\ location' = SignIn
            /\ UNCHANGED <<timers, dropdown>>
    /\ lastEvent' = "other"
    /\ UNCHANGED <<alerts, requestCap, screen, listVars, isLoading, error, searchTerm,
                   selectedHospital, hospitalOptions, formVars, nextReq, resume,
                   unhandled, serverVars, sinceChange>>

\* validateUser's catch, then finally: no answer came, or the interceptor rejected
validateUserRejected(r) ==
    /\ Quiet
    /\ r \in inflight
    /\ r.method = "validate"
    /\ r.phase \in {"sent", "failed"}
    /\ isAuthenticated' = FALSE
    /\ guardLoading' = FALSE
    /\ location' = SignIn
    /\ inflight' = inflight \ {r}
    /\ lastEvent' = "other"
    /\ UNCHANGED <<alerts, requestCap, screen, listVars, isLoading, error, filterVars, formVars,
                   timers, nextReq, resume, unhandled, serverVars, sinceChange>>

\* ProtectedRoute has mounted and its effect has sent the session check
ShellInit ==
    /\ guardLoading = TRUE
    /\ isAuthenticated = FALSE
    /\ location = Protected
    /\ alerts = <<>>
    /\ requestCap = MaxRequests
    /\ screen \in {"user", "hospital"}
    /\ records = <<>>
    /\ totalCount = 0
    /\ currentPage = 1
    /\ isLoading = FALSE
    /\ error = Null
    /\ searchTerm = Empty
    /\ selectedHospital = 0
    /\ hospitalOptions = <<>>
    /\ isModalOpen = FALSE
    /\ editing = <<>>
    /\ formData = initialFormData
    /\ validation = NoValidation
    /\ timers = {}
    /\ inflight = {Request(1, "validate", 0, 0, Empty, 0, <<>>, "guard")}
    /\ nextReq = 2
    /\ resume = "none"
    /\ dropdown = "none"
    /\ unhandled = FALSE
    /\ db = SeedDb(screen)
    /\ nextId = InitialRecords + 1
    /\ shown = 0
    /\ sinceChange = 0
    /\ openedBy = [how |-> "none", id |-> 0]
    /\ lastEvent = "other"

ShellNext ==
    \/ \E r \in inflight : \E status \in SuccessStatuses : \E code \in BodyStatusCodes :
          SessionAnswered(r, status, code)
    \/ \E r \in inflight : \E status \in ErrorStatuses : \E data \in ErrorMessages :
          ErrorResponse(r, status, data)
    \/ \E r \in inflight : validateUserResolved(r)
    \/ \E r \in inflight : validateUserRejected(r)
    \/ PageRuns /\ Tick
    \/ \E t \in timers : PageRuns /\ DebounceFire(t)
    \/ PageRuns /\ DropdownLoaded
    \/ PageRuns /\ DropdownFailed
    \/ \E r \in inflight : PageRuns /\ ServerHandle(r)
    \/ \E r \in inflight : PageRuns /\ FetchResolved(r)
    \/ \E r \in inflight : FetchRejected(r)

SpecShell == ShellInit /\ [][ShellNext]_vars

-----------------------------------------------------------------------------
(* Search and filter: the list with the hospital filter of UserManagement, over
   a server that may leave `page` out of its answer *)

\* the server answers a list request without data.page
ServerOmitsPage(r) ==
    /\ Quiet
    /\ r \in inflight
    /\ r.phase = "sent"
    /\ r.method = "get"
    /\ LET found == ServerPage(db, r.page, itemsPerPage, r.search, r.hospital)
       IN  inflight' = (inflight \ {r}) \cup
               {Answered(r, [status |-> 200, rows |-> found.rows,
                             totalCount |-> found.totalCount, page |-> 0])}
    /\ lastEvent' = "other"
    /\ UNCHANGED <<shellVars, requestCap, screen, listVars, isLoading, error, filterVars, formVars,
                   timers, nextReq, resume, unhandled, serverVars, sinceChange>>

SearchNext ==
    \/ \E term \in SearchTerms : SearchChange(term)
    \/ \E hospital \in {0} \cup {hospitalOptions[i].id : i \in DOMAIN hospitalOptions} :
          FilterChange(hospital)
    \/ DropdownLoaded
    \/ Tick
    \/ \E t \in timers : DebounceFire(t)
    \/ \E page \in PageButtons : handlePageChange(page)
    \/ \E r \in inflight : ServerHandle(r)
    \/ \E r \in inflight : ServerOmitsPage(r)
    \/ \E r \in inflight : FetchResolved(r)
    \/ \E r \in inflight : FetchRejected(r)

SpecSearch == Init /\ [][SearchNext]_vars

-----------------------------------------------------------------------------
(* Saving: the modal sessions of a screen whose first page has loaded and whose
   search box has just been typed into *)

\* the mount-time fetch of page 1 has been applied, the dropdown has loaded, and
\* the search term was changed 500 ms ago: the timeout of its debounce is due
SaveInit ==
    /\ Admitted
    /\ requestCap = MaxSessionRequests
    /\ screen \in {"user", "hospital"}
    /\ db = SeedDb(screen)
    /\ nextId = InitialRecords + 1
    /\ records = ServerPage(db, 1, itemsPerPage, Empty, 0).rows
    /\ totalCount = InitialRecords
    /\ currentPage = 1
    /\ isLoading = FALSE
    /\ error = Null
    /\ searchTerm = NameA
    /\ selectedHospital = 0
    /\ hospitalOptions = IF screen = "user" THEN <<HospitalOne>> ELSE <<>>
    /\ dropdown = IF screen = "user" THEN "loaded" ELSE "none"
    /\ isModalOpen = FALSE
    /\ editing = <<>>
    /\ formData = initialFormData
    /\ validation = NoValidation
    /\ timers = {[left |-> 0, search |-> NameA, hospital |-> 0]}
    /\ inflight = {}
    /\ nextReq = 1
    /\ resume = "none"
    /\ unhandled = FALSE
    /\ shown = 0
    /\ sinceChange = DebounceMs
    /\ openedBy = [how |-> "none", id |-> 0]
    /\ lastEvent = "other"

SaveNext ==
    \/ \E t \in timers : DebounceFire(t)
    \/ OpenCreate
    \/ \E i \in DOMAIN records : ClickEdit(i)
    \/ \E input \in TextInputs : handleInputChange(input[1], input[2])
    \/ \E input \in SelectInputs : handleSelectChange(input[1], input[2])
    \/ ClickCancel
    \/ handleSubmit
    \/ \E r \in inflight : ServerHandle(r)
    \/ \E r \in inflight : FetchResolved(r)
    \/ \E r \in inflight : FetchRejected(r)
    \/ \E r \in inflight : SubmitResolved(r)
    \/ \E r \in inflight : SubmitRejected(r)
    \/ Resume

SpecSave == SaveInit /\ [][SaveNext]_vars

-----------------------------------------------------------------------------
(* Deleting: a loaded list whose last page holds one row, standing on any of its
   pages, with the Delete buttons and the pager *)

\* the list has been loaded and paged to currentPage; the dropdown has settled
DeleteInit ==
    /\ Admitted
    /\ requestCap = MaxRequests
    /\ screen \in {"user", "hospital"}
    /\ totalCount \in {itemsPerPage + 1, 2 * itemsPerPage + 1}
    /\ currentPage \in 1..totalPages
    /\ db = PagerDb(screen, totalCount)
    /\ nextId = totalCount + 1
    /\ records = ServerPage(db, currentPage, itemsPerPage, Empty, 0).rows
    /\ isLoading = FALSE
    /\ error = Null
    /\ searchTerm = Empty
    /\ selectedHospital = 0
    /\ hospitalOptions = IF screen = "user" THEN <<HospitalOne>> ELSE <<>>
    /\ isModalOpen = FALSE
    /\ editing = <<>>
    /\ formData = initialFormData
    /\ validation = NoValidation
    /\ timers = {}
    /\ inflight = {}
    /\ nextReq = 1
    /\ resume = "none"
    /\ dropdown = IF screen = "user" THEN "loaded" ELSE "none"
    /\ unhandled = FALSE
    /\ shown = 0
    /\ sinceChange = DebounceMs
    /\ openedBy = [how |-> "none", id |-> 0]
    /\ lastEvent = "other"

DeleteNext ==
    \/ \E page \in PageButtons : handlePageChange(page)
    \/ \E i \in DOMAIN records : \E answer \in BOOLEAN : ClickDelete(i, answer)
    \/ \E r \in inflight : ServerHandle(r)
    \/ \E r \in inflight : FetchResolved(r)
    \/ \E r \in inflight : FetchRejected(r)
    \/ \E r \in inflight : DeleteResolved(r)
    \/ \E r \in inflight : DeleteRejected(r)
    \/ Resume

SpecDelete == DeleteInit /\ [][DeleteNext]_vars

-----------------------------------------------------------------------------
(* The non-paginated HospitalManagement (src/unnamed/part_003, lines 9-468 and
   485-892): every hospital is loaded at mount, the search box filters and the
   pager slices the loaded list in the browser *)

\* String.prototype.toLowerCase over the letters the rows and the search box use
toLowerCase(s) ==
    [i \in DOMAIN s |->
        CASE s[i] = "A" -> "a"
          [] s[i] = "B" -> "b"
          [] s[i] = "R" -> "r"
          [] s[i] = "Z" -> "z"
          [] OTHER -> s[i]]

\* what the user types into the search box of this screen
LocalSearchTerms == {Empty, <<"a">>, <<"B">>, <<"r">>, <<"z">>}

\* hospitals.filter(...): clinic_name or registration_id contains the term
filteredHospitals ==
    SelectSeq(records, LAMBDA hospital :
        \/ Includes(toLowerCase(hospital.clinic_name), toLowerCase(searchTerm))
        \/ Includes(toLowerCase(hospital.registration_id), toLowerCase(searchTerm)))

\* Math.ceil(filteredHospitals.length / itemsPerPage)
filteredPages == (Len(filteredHospitals) + itemsPerPage - 1) \div itemsPerPage

\* filteredHospitals.slice((currentPage - 1) * itemsPerPage, currentPage * itemsPerPage)
currentHospitals ==
    LET from == (currentPage - 1) * itemsPerPage + 1
        to   == Min(currentPage * itemsPerPage, Len(filteredHospitals))
    IN  IF from <= to THEN SubSeq(filteredHospitals, from, to) ELSE <<>>

\* the list has been loaded by the mount-time fetchHospitals()
LocalInit ==
    /\ Admitted
    /\ requestCap = MaxRequests
    /\ screen = "hospital"
    /\ db = SeedDb(screen)
    /\ nextId = InitialRecords + 1
    /\ records = db
    /\ totalCount = 0
    /\ currentPage = 1
    /\ isLoading = FALSE
    /\ error = Null
    /\ searchTerm = Empty
    /\ selectedHospital = 0
    /\ hospitalOptions = <<>>
    /\ dropdown = "none"
    /\ isModalOpen = FALSE
    /\ editing = <<>>
    /\ formData = initialFormData
    /\ validation = NoValidation
    /\ timers = {}
    /\ inflight = {}
    /\ nextReq = 1
    /\ resume = "none"
    /\ unhandled = FALSE
    /\ shown = 0
    /\ sinceChange = DebounceMs
    /\ openedBy = [how |-> "none", id |-> 0]
    /\ lastEvent = "other"

\* onChange of the search box: setSearchTerm(e.target.value), nothing else
setSearchTerm(term) ==
    /\ term # searchTerm
    /\ searchTerm' = term
    /\ lastEvent' = "other"
    /\ UNCHANGED <<shellVars, requestCap, screen, listVars, isLoading, error,
                   selectedHospital, hospitalOptions, dropdown, formVars, timers,
                   netVars, resume, unhandled, serverVars, sinceChange>>

\* a page button, one per page of the filtered list: setCurrentPage(page)
setCurrentPage(page) ==
    /\ filteredPages > 1
    /\ page \in 1..filteredPages
    /\ page # currentPage
    /\ currentPage' = page
    /\ lastEvent' = "other"
    /\ UNCHANGED <<shellVars, requestCap, screen, records, totalCount, shown, isLoading,
                   error, filterVars, formVars, timers, netVars, resume, unhandled,
                   serverVars, sinceChange>>

\* the Delete button of a row of the slice on screen
ClickDeleteLocal(i, answer) ==
    /\ TableShown
    /\ i \in ClickPositions(currentHospitals)
    /\ handleDelete(RowId(currentHospitals[i]), answer)
    /\ lastEvent' = IF answer THEN "confirmAccepted" ELSE "confirmDeclined"
    /\ UNCHANGED <<shellVars, requestCap, screen, listVars, filterVars, formVars, timers,
                   resume, unhandled, serverVars, sinceChange>>

\* handleDelete after `await api.delete(...)`:
\* setHospitals(prev => prev.filter(h => h.id !== id)), then finally
DeleteLocalResolved(r) ==
    /\ r \in inflight
    /\ r.method = "delete"
    /\ r.phase = "answered"
    /\ records' = RemoveRow(records, r.target)
    /\ isLoading' = FALSE
    /\ inflight' = inflight \ {r}
    /\ lastEvent' = "other"
    /\ UNCHANGED <<shellVars, requestCap, screen, totalCount, currentPage, shown, error,
                   filterVars, formVars, timers, nextReq, resume, unhandled,
                   serverVars, sinceChange>>

LocalNext ==
    \/ \E term \in LocalSearchTerms : setSearchTerm(term)
    \/ \E page \in 1..filteredPages : setCurrentPage(page)
    \/ \E i \in DOMAIN currentHospitals : \E answer \in BOOLEAN :
          ClickDeleteLocal(i, answer)
    \/ \E r \in inflight : ServerHandle(r)
    \/ \E r \in inflight : DeleteLocalResolved(r)
    \/ \E r \in inflight : DeleteRejected(r)

SpecLocal == LocalInit /\ [][LocalNext]_vars

-----------------------------------------------------------------------------
(* AcceptInvitation (src/src/pages/AuthPages/AcceptInvitation.tsx): the page on
   which an invited user sets a password.  formData holds its two inputs,
   isLoading its `loading`, error its `error` ('' when there is none) *)

\* the address of the invitation page while it is mounted
InvitationRoute == "/accept-invitation"

ErrMismatch == "Passwords do not match"

ErrTooShort == "Password must be at least 6 characters long"

ErrAccept == "An error occurred"

\* what the invited user types into either password box: five, six and seven
\* characters, and another six
Passwords ==
    {Empty,
     <<"a", "b", "c", "d", "e">>,
     <<"a", "b", "c", "d", "e", "f">>,
     <<"a", "b", "c", "d", "e", "g">>,
     <<"a", "b", "c", "d", "e", "f", "g">>}

\* err.response?.data?.message of a rejected request: absent, '' or a text
AcceptMessages == {<<>>, <<"">>, <<"Invitation expired">>}

InviteInit ==
    /\ guardLoading = FALSE
    /\ isAuthenticated = FALSE
    /\ location = InvitationRoute
    /\ alerts = <<>>
    /\ requestCap = MaxRequests
    /\ screen = "invitation"
    /\ formData = [password |-> Empty, confirmPassword |-> Empty]
    /\ error = ""
    /\ isLoading = FALSE
    /\ records = <<>>
    /\ totalCount = 0
    /\ currentPage = 1
    /\ searchTerm = Empty
    /\ selectedHospital = 0
    /\ hospitalOptions = <<>>
    /\ dropdown = "none"
    /\ isModalOpen = FALSE
    /\ editing = <<>>
    /\ validation = NoValidation
    /\ timers = {}
    /\ inflight = {}
    /\ nextReq = 1
    /\ resume = "none"
    /\ unhandled = FALSE
    /\ db = <<>>
    /\ nextId = 1
    /\ shown = 0
    /\ sinceChange = DebounceMs
    /\ openedBy = [how |-> "none", id |-> 0]
    /\ lastEvent = "other"

inviteFrame ==
    <<guardLoading, isAuthenticated, alerts, requestCap, screen, listVars, filterVars,
      isModalOpen, editing, validation, openedBy, timers, resume, unhandled,
      serverVars, sinceChange>>

\* onChange of the password boxes: setPassword / setConfirmPassword
setPassword(name, value) ==
    /\ location = InvitationRoute
    /\ name \in {"password", "confirmPassword"}
    /\ formData[name] # value
    /\ formData' = [formData EXCEPT ![name] = value]
    /\ lastEvent' = "other"
    /\ UNCHANGED <<inviteFrame, location, isLoading, error, netVars>>

\* fault: the length is checked before the match
handleSubmitAcceptLengthFirst ==
    /\ location = InvitationRoute
    /\ ~isLoading
    /\ formData.password # Empty /\ formData.confirmPassword # Empty
    /\ \/ /\ Len(formData.password) < 6
          /\ error' = ErrTooShort
          /\ lastEvent' = "submitInvalid"
          /\ UNCHANGED <<isLoading, netVars>>
       \/ /\ Len(formData.password) >= 6
          /\ formData.password # formData.confirmPassword
          /\ error' = ErrMismatch
          /\ lastEvent' = "submitInvalid"
          /\ UNCHANGED <<isLoading, netVars>>
       \/ /\ Len(formData.password) >= 6
          /\ formData.password = formData.confirmPassword
          /\ nextReq <= requestCap
          /\ isLoading' = TRUE
          /\ error' = ""
          /\ inflight' = inflight \cup
                {Request(nextReq, "post", 0, 0, Empty, 0,
                         <<[password |-> formData.password]>>, "accept")}
          /\ nextReq' = nextReq + 1
          /\ lastEvent' = "submitValid"
    /\ UNCHANGED <<inviteFrame, location, formData>>

\* handleSubmit up to its await; the button is disabled while loading and the
\* browser submits the form only with both `required` boxes filled
handleSubmitAccept ==
    /\ location = InvitationRoute
    /\ ~isLoading
    /\ formData.password # Empty /\ formData.confirmPassword # Empty
    /\ \/ /\ formData.password # formData.confirmPassword
          /\ error' = ErrMismatch
          /\ lastEvent' = "submitInvalid"
          /\ UNCHANGED <<isLoading, netVars>>
       \/ /\ formData.password = formData.confirmPassword
          /\ Len(formData.password) < 6
          /\ error' = ErrTooShort
          /\ lastEvent' = "submitInvalid"
          /\ UNCHANGED <<isLoading, netVars>>
       \/ /\ formData.password = formData.confirmPassword
          /\ Len(formData.password) >= 6
          /\ nextReq <= requestCap
          /\ isLoading' = TRUE
          /\ error' = ""
          /\ inflight' = inflight \cup
                {Request(nextReq, "post", 0, 0, Empty, 0,
                         <<[password |-> formData.password]>>, "accept")}
          /\ nextReq' = nextReq + 1
          /\ lastEvent' = "submitValid"
    /\ UNCHANGED <<inviteFrame, location, formData>>

\* the POST resolves: navigate("/") if response.data.success, then finally
AcceptResolved(r, success) ==
    /\ r \in inflight
    /\ r.origin = "accept"
    /\ location' = IF success THEN Protected ELSE location
    /\ isLoading' = FALSE
    /\ inflight' = inflight \ {r}
    /\ lastEvent' = "other"
    /\ UNCHANGED <<inviteFrame, formData, error, nextReq>>

\* the POST is rejected: catch, then finally
AcceptRejected(r, message) ==
    /\ r \in inflight
    /\ r.origin = "accept"
    /\ error' = IF message # <<>> /\ message[1] # "" THEN message[1] ELSE ErrAccept
    /\ isLoading' = FALSE
    /\ inflight' = inflight \ {r}
    /\ lastEvent' = "acceptRejected"
    /\ UNCHANGED <<inviteFrame, location, formData, nextReq>>

InviteNext ==
    \/ \E name \in {"password", "confirmPassword"} : \E value \in Passwords :
          setPassword(name, value)
    \/ handleSubmitAccept
    \/ \E r \in inflight : \E success \in BOOLEAN : AcceptResolved(r, success)
    \/ \E r \in inflight : \E message \in AcceptMessages : AcceptRejected(r, message)

SpecInvite == InviteInit /\ [][InviteNext]_vars

-----------------------------------------------------------------------------
(* A loaded screen with its pager, its editor and its Delete buttons over a
   network on which every request settles: the client gives up after
   `timeout: 10000` ms, and a settled promise's continuation is run by the
   event loop *)

\* some pending promise settles, or a suspended handler runs on
Settle ==
    \/ \E r \in inflight :
          \/ FetchResolved(r) \/ FetchRejected(r)
          \/ SubmitResolved(r) \/ SubmitRejected(r)
          \/ DeleteResolved(r) \/ DeleteRejected(r)
    \/ Resume

LiveNext ==
    \/ DeleteNext
    \/ \E i \in DOMAIN records : ClickEdit(i)
    \/ ClickCancel
    \/ handleSubmit
    \/ \E r \in inflight : SubmitResolved(r)
    \/ \E r \in inflight : SubmitRejected(r)

SpecLive == DeleteInit /\ [][LiveNext]_vars /\ WF_vars(Settle)

-----------------------------------------------------------------------------
(* Properties *)

\* the requests a step puts on the wire
Issued == {r \in inflight' : r.id >= nextReq}

\* the requests whose promise a step settles at the client
Settled == {r \in inflight : \A q \in inflight' : q.id # r.id}

Rejections == {"fetchRejected", "submitRejected", "deleteRejected"}

\* C1: the response of a list fetch that arrives after the response of a later
\* issued fetch was applied is discarded: records, totalCount and currentPage
\* stay those of the later issued fetch
LateResponseDiscarded ==
    [][\A r \in Settled :
          r.method = "get" /\ r.id < shown =>
              UNCHANGED <<records, totalCount, currentPage>>]_vars

\* C2: changes of the search term and the filter less than 500 ms apart leave one
\* pending timeout, that of the last change; it fires 500 ms after that change
\* and issues one fetch of page 1 with the last term and the last filter value;
\* the timeouts of the earlier changes are gone and issue nothing
DebounceOnce ==
    [][/\ Cardinality(timers') <= 1
       /\ \A t \in timers' : t.search = searchTerm' /\ t.hospital = selectedHospital'
       /\ sinceChange' < DebounceMs => timers' # {}
       /\ \A r \in Issued :
             r.origin = "debounce" =>
                /\ sinceChange = DebounceMs
                /\ timers' = {}
                /\ Cardinality(Issued) = 1
                /\ r.method = "get"
                /\ r.page = 1
                /\ r.search = Trim(searchTerm)
                /\ r.hospital = selectedHospital]_vars

\* the first fetch of the session was issued after the term and the filter both
\* changed: it carries both, and the timeouts scheduled before are gone
DebounceOnceReached ==
    /\ nextReq = 2
    /\ timers = {}
    /\ searchTerm = NameA
    /\ selectedHospital = 1
    /\ \E r \in inflight :
          r.origin = "debounce" /\ r.search = NameA /\ r.hospital = 1

\* C3: every POST and PUT on the wire carries a draft validateForm finds no error
\* in; a submit of a draft with errors issues no request and leaves the modal
\* open, the draft and isLoading as they were
ValidationBlocksSubmit ==
    [][/\ \A r \in inflight' :
             r.method \in {"post", "put"} => DOMAIN validateForm(r.body[1]) = {}
       /\ \A r \in Issued :
             r.method \in {"post", "put"} =>
                /\ DOMAIN validateForm(formData) = {}
                /\ r.body = <<SubmitBody(formData)>>
       /\ lastEvent' = "submitInvalid" =>
             /\ DOMAIN validateForm(formData) # {}
             /\ validation' = validateForm(formData)
             /\ Issued = {}
             /\ isModalOpen'
             /\ formData' = formData
             /\ isLoading' = isLoading]_vars

\* a submit has just failed validation
ValidationBlocksSubmitReached ==
    /\ lastEvent = "submitInvalid"
    /\ isModalOpen
    /\ validation # NoValidation
    /\ \A r \in inflight : r.method = "get"

\* C4: while the modal is closed the draft is the initial empty draft, the
\* validation mapping is empty and no row is being edited; a modal opened with
\* Create is in create mode
ClosedModalIsReset ==
    /\ ~isModalOpen =>
          /\ formData = initialFormData
          /\ validation = NoValidation
          /\ editing = <<>>
          /\ openedBy.how = "none"
    /\ isModalOpen /\ openedBy.how = "create" => editing = <<>>

\* the modal is closed again after a save that failed in it
ClosedModalIsResetReached ==
    /\ ~isModalOpen
    /\ error = ErrSave

\* C5: whenever the POST or PUT of a validated submit resolves, the screen issues
\* a list re-fetch
SuccessfulSubmitRefetches ==
    [][\A r \in Settled :
          /\ r.method \in {"post", "put"}
          /\ r.phase = "answered"
          /\ lastEvent' # "submitRejected"
          => \E g \in Issued : g.method = "get" /\ g.origin = "submit"]_vars

\* C6: when the POST or PUT of handleSubmit is rejected the modal, the draft and
\* the row being edited stay as they are, error becomes the save message,
\* isLoading becomes false and no request is issued
RejectedSubmitKeepsModal ==
    [][lastEvent' = "submitRejected" =>
          /\ \E r \in Settled : r.method \in {"post", "put"}
          /\ UNCHANGED <<isModalOpen, formData, editing, validation>>
          /\ error' = ErrSave
          /\ ~isLoading'
          /\ Issued = {}
          /\ resume' = "none"]_vars

\* a save has just been rejected under an open modal holding a filled draft
RejectedSubmitKeepsModalReached ==
    /\ lastEvent = "submitRejected"
    /\ isModalOpen
    /\ formData # initialFormData
    /\ error = ErrSave

\* C7: a valid submit of UserManagement issues exactly one request: PUT on the
\* _id of the row whose Edit button opened the modal, POST when Create opened
\* it; its body is the whole draft
SubmitIssuesOneMutation ==
    [][screen = "user" =>
          /\ lastEvent' = "submitValid" =>
                /\ Cardinality(Issued) = 1
                /\ \A r \in Issued : r.method \in {"post", "put"}
          /\ \A r \in Issued :
                r.method \in {"post", "put"} =>
                   /\ lastEvent' = "submitValid"
                   /\ r.body = <<formData>>
                   /\ openedBy.how \in {"create", "edit"}
                   /\ openedBy.how = "edit" =>
                         r.method = "put" /\ r.target = openedBy.id
                   /\ openedBy.how = "create" =>
                         r.method = "post" /\ r.target = 0]_vars

\* a PUT is on the wire for a row of which the user changed the first name only
SubmitIssuesOneMutationReached ==
    /\ screen = "user"
    /\ openedBy.how = "edit"
    /\ editing # <<>>
    /\ \E r \in inflight :
          /\ r.method = "put"
          /\ r.target = openedBy.id
          /\ r.body[1].first_name # editing[1].first_name
          /\ r.body[1].last_name = editing[1].last_name
          /\ r.body[1].email_id = editing[1].email_id

\* C8: a DELETE is issued only by a click whose prompt was accepted; when it
\* resolves the list is fetched again for the page, term and filter of the click,
\* and the handler ends with isLoading false; a declined prompt issues nothing
\* and changes no state of the screen
DeleteOnlyAfterConfirm ==
    [][/\ \A r \in Issued : r.method = "delete" => lastEvent' = "confirmAccepted"
       /\ lastEvent' = "confirmDeclined" =>
             /\ Issued = {}
             /\ UNCHANGED <<records, totalCount, currentPage, isLoading, error,
                            isModalOpen, editing, formData, validation, searchTerm,
                            selectedHospital, inflight, timers, resume>>
       /\ \A r \in Settled :
             r.method = "delete" /\ lastEvent' # "deleteRejected" =>
                \E g \in Issued :
                   /\ g.method = "get"
                   /\ g.page = r.page
                   /\ g.search = Trim(r.search)
                   /\ g.hospital = r.hospital
       /\ resume = "delete" => resume' = "none" /\ ~isLoading']_vars

\* the list is being fetched again after a confirmed delete took a row off the server
DeleteOnlyAfterConfirmReached ==
    /\ Len(db) < InitialRecords
    /\ \E r \in inflight : r.method = "get" /\ r.origin = "delete"

\* C9: a rejected list fetch, save or delete leaves records and totalCount, and
\* every other state of the screen but isLoading and error, as they were; so does
\* the step that started the operation for records and totalCount
FailureKeepsList ==
    [][/\ lastEvent' \in Rejections =>
             UNCHANGED <<records, totalCount, currentPage, searchTerm,
                         selectedHospital, hospitalOptions, isModalOpen, editing,
                         formData, validation, timers>>
       /\ Issued # {} => UNCHANGED <<records, totalCount>>]_vars

\* a list fetch has just failed over a loaded table
FailureKeepsListReached ==
    /\ lastEvent = "fetchRejected"
    /\ records # <<>>
    /\ totalCount = Len(db)
    /\ error = ErrLoad

\* C10: every rejection is caught by the handler that issued the request: error
\* becomes that handler's message, isLoading false, the handler completes and no
\* rejection is left unhandled
RejectionsAreCaught ==
    [][/\ ~unhandled'
       /\ lastEvent' = "fetchRejected" =>
             error' = ErrLoad /\ \E r \in Settled : r.method = "get"
       /\ lastEvent' = "submitRejected" =>
             error' = ErrSave /\ \E r \in Settled : r.method \in {"post", "put"}
       /\ lastEvent' = "deleteRejected" =>
             error' = ErrDelete /\ \E r \in Settled : r.method = "delete"
       /\ lastEvent' \in Rejections => ~isLoading'
       /\ resume # "none" => resume' = "none" /\ ~isLoading']_vars

\* a delete has just been rejected and its handler has set its message
RejectionsAreCaughtReached ==
    /\ lastEvent = "deleteRejected"
    /\ error = ErrDelete
    /\ ~isLoading
    /\ ~unhandled

\* C11: a change of one field of the draft empties the validation message of
\* that field and leaves the messages of all other fields as they were
FieldChangeClearsOwnMessage ==
    [][\A name \in DOMAIN formData :
          /\ isModalOpen /\ isModalOpen'
          /\ formData'[name] # formData[name]
          => /\ MessageOf(validation', name) = ""
             /\ \A other \in (DOMAIN validation \cup DOMAIN validation') \ {name} :
                   MessageOf(validation', other) = MessageOf(validation, other)]_vars

\* C12: with two pages or more and the current page among them, the numbered
\* buttons are min(totalPages, 5) consecutive pages inside 1..totalPages that
\* include the current page: all pages up to five, the first five near the
\* start, the last five near the end, the current page and two each side otherwise
PagerWindow ==
    totalPages >= 2 /\ currentPage \in 1..totalPages =>
        LET count == IF totalPages < 5 THEN totalPages ELSE 5
            first == IF totalPages <= 5 THEN 1
                     ELSE IF currentPage <= 3 THEN 1
                     ELSE IF currentPage >= totalPages - 2 THEN totalPages - 4
                     ELSE currentPage - 2
        IN  /\ Len(PageNumbers) = count
            /\ PageNumbers[1] = first
            /\ \A i \in 1..(count - 1) : PageNumbers[i + 1] = PageNumbers[i] + 1
            /\ PageNumbers[1] >= 1
            /\ PageNumbers[count] <= totalPages
            /\ \E i \in 1..count : PageNumbers[i] = currentPage

\* page 6 of 12 has been asked for with a numbered button and shows 4..8
PagerWindowReached ==
    /\ totalPages = 12
    /\ currentPage = 6
    /\ \E r \in inflight : r.origin = "page" /\ r.page = 6
    /\ PageNumbers = <<4, 5, 6, 7, 8>>

\* Save has been pressed on the draft that is shown
Submitted == isModalOpen /\ lastEvent \in {"submitInvalid", "submitValid"}

\* the fields each screen marks as required
RequiredFields ==
    IF screen = "user" THEN {"first_name", "last_name", "hospital_id", "email_id"}
    ELSE {"clinic_name", "address", "pin_code"}

IsMissing(f, k) ==
    k \in RequiredFields /\ (IF k = "hospital_id" THEN f[k] = 0 ELSE f[k] = Empty)

\* a format rule of the contract fails on field k
IsMalformed(f, k) ==
    CASE k \in {"email_id", "email"} -> f[k] # Empty /\ ~IsEmail(f[k])
      [] k \in {"phone_number", "mobile_number"} ->
            f[k] # Empty /\ ~IsPhoneDigits(StripSeparators(f[k]))
      [] k = "pin_code" -> f[k] # Empty /\ ~IsPinCode(f[k])
      [] k = "working_hours_to" ->
            /\ f.working_hours_from # Empty
            /\ f[k] # Empty
            /\ ClockMinutes(f.working_hours_from) >= ClockMinutes(f[k])
      [] OTHER -> FALSE

\* C13: the mapping validateForm produces is keyed by exactly the fields that
\* are missing or malformed; it is non-empty when a required field is empty, and
\* empty if and only if every required field is present and every format rule holds
ValidationNamesInvalidFields ==
    Submitted =>
        LET invalid == {k \in DOMAIN formData :
                            IsMissing(formData, k) \/ IsMalformed(formData, k)}
        IN  /\ DOMAIN validation = invalid
            /\ \A k \in DOMAIN validation : validation[k] # ""
            /\ (\E k \in RequiredFields : IsMissing(formData, k))
                    => DOMAIN validation # {}
            /\ DOMAIN validation = {}
                    <=> /\ \A k \in RequiredFields : ~IsMissing(formData, k)
                        /\ \A k \in DOMAIN formData : ~IsMalformed(formData, k)

\* a user draft without first name and with a malformed email was submitted
ValidationNamesInvalidFieldsReached ==
    /\ Submitted
    /\ screen = "user"
    /\ formData.first_name = Empty
    /\ formData.email_id = BadEmail
    /\ DOMAIN validation = {"first_name", "email_id"}

\* C14: the outcome of the phone and mobile rules is the same for a value and
\* for that value with its separators removed, strings of separators included;
\* a non-empty value passes exactly when its stripped form is 10 to 12 digits
PhoneOutcomeIgnoresSeparators ==
    Submitted =>
        \A k \in {"phone_number", "mobile_number"} :
            LET stripped == StripSeparators(formData[k])
            IN  /\ k \in DOMAIN validation
                    <=> k \in DOMAIN validateForm([formData EXCEPT ![k] = stripped])
                /\ formData[k] # Empty =>
                        (k \notin DOMAIN validation
                            <=> /\ Len(stripped) \in 10..12
                                /\ \A i \in DOMAIN stripped : stripped[i] \in Digits)

\* C15: the hospital form accepts a pin code exactly when it is six decimal
\* digits: 123456 passes; the empty string, 12345, 1234567 and 12a456 each give
\* an error keyed pin_code
PinCodeIsSixDigits ==
    Submitted /\ screen = "hospital" =>
        LET pin == formData.pin_code
        IN  /\ "pin_code" \notin DOMAIN validation
                    <=> Len(pin) = 6 /\ \A i \in DOMAIN pin : pin[i] \in Digits
            /\ pin = <<"1", "2", "3", "4", "5", "6">>
                    => "pin_code" \notin DOMAIN validation
            /\ pin \in {<<>>, <<"1", "2", "3", "4", "5">>,
                         <<"1", "2", "3", "4", "5", "6", "7">>,
                         <<"1", "2", "a", "4", "5", "6">>}
                    => "pin_code" \in DOMAIN validation

\* a hospital draft with pin code 1234567 was submitted and refused for it
PinCodeIsSixDigitsReached ==
    /\ Submitted
    /\ screen = "hospital"
    /\ formData.pin_code = <<"1", "2", "3", "4", "5", "6", "7">>
    /\ validation.pin_code = "Pin Code must be a 6-digit number"

\* C16: with both working hours present the hospital form reports an error if
\* and only if from >= to as clock times of one day (equal times included), keyed
\* on working_hours_to only; with either one empty it reports none; 09:00 to
\* 08:00 fails, 08:00 to 09:00 passes
WorkingHoursOrdered ==
    Submitted /\ screen = "hospital" =>
        LET from == formData.working_hours_from
            to   == formData.working_hours_to
        IN  /\ "working_hours_from" \notin DOMAIN validation
            /\ from = Empty \/ to = Empty => "working_hours_to" \notin DOMAIN validation
            /\ from # Empty /\ to # Empty =>
                    ("working_hours_to" \in DOMAIN validation
                        <=> ClockMinutes(from) >= ClockMinutes(to))
            /\ from = NineOClock /\ to = EightOClock
                    => "working_hours_to" \in DOMAIN validation
            /\ from = EightOClock /\ to = NineOClock
                    => "working_hours_to" \notin DOMAIN validation

\* a hospital draft opening and closing at 08:00 was submitted and refused for it
WorkingHoursOrderedReached ==
    /\ Submitted
    /\ screen = "hospital"
    /\ formData.working_hours_from = EightOClock
    /\ formData.working_hours_to = EightOClock
    /\ DOMAIN validation = {"working_hours_to"}

\* the session check has not been delivered to validateUser yet
CheckPending == \E r \in inflight : r.method = "validate"

\* C17: the guard shows the protected content only once the session check came
\* back with statusCode 200 in its body; while the check is pending it shows
\* neither the content nor the redirect; any other statusCode and any failed
\* request end in the redirect to /signin; a resolved outcome never changes
GuardDecidesOnce ==
    /\ [](CheckPending => Rendered = "loading")
    /\ [][/\ Rendered # "outlet" /\ Rendered' = "outlet"
              => \E r \in inflight \ inflight' :
                    /\ r.method = "validate"
                    /\ r.phase = "answered"
                    /\ r.resp[1].statusCode = 200
          /\ \A r \in inflight \ inflight' :
                /\ r.method = "validate"
                /\ \A q \in inflight' : q.id # r.id
                /\ ~(r.phase = "answered" /\ r.resp[1].statusCode = 200)
                => Rendered' = "navigate" /\ location' = "/signin"
          /\ Rendered # "loading" => Rendered' = Rendered]_vars

\* the check returned 200, the screen was mounted and has loaded its list
GuardDecidesOnceReached ==
    /\ Rendered = "outlet"
    /\ shown # 0
    /\ records # <<>>

\* the text after the last ':' of a message, all of it when it has none
AfterLastColon(s) ==
    CHOOSE t \in {SubSeq(s, i, Len(s)) : i \in 1..(Len(s) + 1)} :
        /\ \A k \in DOMAIN t : t[k] # ":"
        /\ Len(t) = Len(s) \/ s[Len(s) - Len(t)] = ":"

\* what one error response makes the interceptor do; emptyIsAbsent says whether
\* an errorMessage of '' counts as absent
InterceptorStep(emptyIsAbsent) ==
    \A r \in inflight : \A q \in inflight' :
        q.id = r.id /\ r.phase = "sent" /\ q.phase = "failed" /\ q.resp # <<>> =>
            LET status == q.resp[1].status
                data   == q.resp[1].errorMessage
                absent == data = <<>> \/ (emptyIsAbsent /\ data = <<Empty>>)
                text   == IF absent THEN UnknownError ELSE Trim(AfterLastColon(data[1]))
            IN  /\ status = 401 => location' = "/signin" /\ alerts' = alerts
                /\ status = 403 => location' = location
                                      /\ alerts' = Append(alerts, NotAuthorized)
                /\ status = 400 => location' = location
                                      /\ alerts' = Append(alerts, BadRequest)
                /\ status = 500 => location' = location
                                      /\ alerts' = Append(alerts, text)
                /\ status \notin {400, 401, 403, 500} =>
                        location' = location /\ alerts' = alerts

\* a rejected request reaches the catch block of the handler that awaits it
CatchRuns ==
    \A r \in inflight \ inflight' :
        r.phase = "failed" /\ (\A q \in inflight' : q.id # r.id) =>
            \/ r.method = "validate" /\ ~guardLoading' /\ ~isAuthenticated'
            \/ r.method = "get" /\ error' = ErrLoad /\ ~isLoading'

\* C18 as stated: per failed response the interceptor does exactly the action of
\* its status (401 redirect to /signin, 403 and 400 their fixed alerts, 500 an
\* alert of the trimmed text after the last ':' of errorMessage, 'Unknown error'
\* when errorMessage is absent), nothing for other statuses, and rejects again
InterceptorActsAsStated == [][InterceptorStep(FALSE) /\ CatchRuns]_vars

\* C18 amended: the same, with 'Unknown error' also when errorMessage is empty
InterceptorActsOnce == [][InterceptorStep(TRUE) /\ CatchRuns]_vars

\* a list fetch was answered 500 with 'E: db: down ', 'down' was alerted and the
\* catch block of the fetch has put up the load error
InterceptorActsOnceReached ==
    /\ alerts = <<<<"d", "o", "w", "n">>>>
    /\ error = ErrLoad
    /\ inflight = {}

ListOnlyFromFetch ==
    [][/\ records' # records =>
             \E r \in Settled :
                /\ r.method = "get"
                /\ r.phase = "answered"
                /\ records' = r.resp[1].rows
       /\ \A r \in Settled :
             /\ r.method \in {"post", "put", "delete"}
             /\ r.phase = "answered"
             /\ lastEvent' \notin Rejections
             => /\ records' = records
                /\ \E g \in Issued : g.method = "get"]_vars

\* the fields of the draft the form offers for editing: all of them, but for
\* registration_id, which the hospital form does not show
EditableFields ==
    IF screen = "user" THEN DOMAIN initialFormDataUser
    ELSE DOMAIN initialFormDataHospital \ {"registration_id"}

\* C21: a click on Edit makes the draft a field-for-field copy of the editable
\* fields of the clicked row, makes that row the one being edited, clears the
\* validation messages and opens the modal, and leaves the list as it is; no
\* later change of the draft changes the list
EditCopiesRow ==
    [][/\ openedBy'.how = "edit" /\ openedBy.how # "edit" =>
             \E i \in DOMAIN records :
                /\ RowId(records[i]) = openedBy'.id
                /\ \A k \in EditableFields : formData'[k] = records[i][k]
                /\ editing' = <<records[i]>>
                /\ validation' = NoValidation
                /\ isModalOpen'
                /\ UNCHANGED <<records, totalCount, currentPage>>
       /\ formData' # formData => UNCHANGED <<records, totalCount, currentPage>>]_vars

\* the editor is open on a row of the table and its draft has been changed,
\* while the table still holds the row as it was fetched
EditCopiesRowReached ==
    /\ isModalOpen
    /\ openedBy.how = "edit"
    /\ editing # <<>>
    /\ \E k \in EditableFields : formData[k] # editing[1][k]
    /\ \E i \in DOMAIN records : records[i] = editing[1]

\* C22: a fetch the debounce of the search term or the filter issues asks for
\* page 1, and once its answer is applied currentPage is the page of the answer,
\* or 1 when the answer has none; a fetch a page button issues asks for the
\* clicked page with the search term and the filter as they are
SearchResetsPage ==
    [][/\ \A r \in Issued :
             r.origin = "debounce" => r.method = "get" /\ r.page = 1
       /\ \A r \in Settled :
             /\ r.origin = "debounce"
             /\ r.phase = "answered"
             /\ lastEvent' # "fetchRejected"
             => currentPage' = IF r.resp[1].page # 0 THEN r.resp[1].page ELSE 1
       /\ \A r \in Issued :
             r.origin = "page" =>
                /\ r.method = "get"
                /\ r.page \in PageButtons
                /\ r.page = currentPage'
                /\ r.search = Trim(searchTerm)
                /\ r.hospital = selectedHospital
                /\ UNCHANGED <<searchTerm, selectedHospital>>]_vars

\* the screen is on page 2, the search term has changed, and the fetch of page 1
\* it caused has been answered without a page
SearchResetsPageReached ==
    /\ currentPage = 2
    /\ searchTerm = NameA
    /\ \E r \in inflight :
          /\ r.origin = "debounce"
          /\ r.page = 1
          /\ r.search = NameA
          /\ r.phase = "answered"
          /\ r.resp[1].page = 0

\* the create and update requests of the screen that have not settled
Saves == {r \in inflight : r.method \in {"post", "put"}}

\* C23: at most one create or update request of a screen is in flight
OneSaveInFlight == Cardinality(Saves) <= 1

\* C24: the completion of a submit closes and resets only the modal session that
\* issued it.  Stated for the sessions the state tells apart: while the server
\* has stored no new row, no POST has succeeded, so every completing save is the
\* PUT of an Edit session; a session opened with Create in which the user has
\* started editing is then closed only by the user, and no step of a request or
\* of a resumed handler closes it or resets its draft
CompletionClosesOwnSession ==
    [][/\ isModalOpen
       /\ openedBy.how = "create"
       /\ formData # initialFormData
       /\ nextId = InitialRecords + 1
       /\ inflight' # inflight \/ resume' # resume
       => /\ isModalOpen'
          /\ formData' = formData
          /\ editing' = editing]_vars

\* C25: isLoading is true whenever a list fetch, a create or update request or a
\* delete request of the screen is in flight
LoadingWhileInFlight == inflight # {} => isLoading

\* no request is in flight, no handler is suspended and no timeout is pending
Idle == inflight = {} /\ resume = "none" /\ timers = {}

\* C26: with a server that echoes the requested page, whenever no request is in
\* flight (and no failure is on display) currentPage lies between 1 and the
\* larger of 1 and totalPages; the screen is never left past the last page with
\* an empty table while rows exist
PageWithinRange ==
    Idle /\ error = Null =>
        /\ 1 <= currentPage
        /\ currentPage <= (IF totalPages > 1 THEN totalPages ELSE 1)
        /\ ~(records = <<>> /\ totalCount > 0)

\* C27: whenever no request is in flight, currentPage is the number of the page
\* whose records the list holds; after a failed page change it is back at the
\* page of the records that are still there (the server's rows do not change
\* here, so the records of a page are what the server returns for it)
CurrentPageIsShownPage ==
    Idle => records = ServerPage(db, currentPage, itemsPerPage, searchTerm,
                                 selectedHospital).rows

\* C28: in the non-paginated HospitalManagement, whenever a loaded hospital
\* matches the search term the slice on display is not empty: currentPage never
\* exceeds the number of pages of the filtered list
SliceNotEmpty ==
    filteredHospitals # <<>> =>
        /\ currentPage <= filteredPages
        /\ currentHospitals # <<>>

\* C29: AcceptInvitation sends its request only when the two passwords are equal
\* and have at least 6 characters; otherwise it sends nothing, leaves loading
\* false and sets the error, the mismatch before the length; once the request
\* is sent loading is true until it settles and false afterwards, whether it
\* resolved or was rejected
InvitationSubmitGuarded ==
    /\ [](inflight # {} => isLoading)
    /\ [][/\ Issued # {} =>
                /\ formData.password = formData.confirmPassword
                /\ Len(formData.password) >= 6
                /\ lastEvent' = "submitValid"
          /\ lastEvent' = "submitValid" =>
                Issued # {} /\ isLoading' /\ error' = ""
          /\ lastEvent' = "submitInvalid" =>
                /\ formData.password # formData.confirmPassword
                      \/ Len(formData.password) < 6
                /\ Issued = {}
                /\ ~isLoading'
                /\ error' = IF formData.password # formData.confirmPassword
                            THEN ErrMismatch ELSE ErrTooShort
          /\ Settled # {} => ~isLoading' /\ inflight' = {}]_vars

\* equal passwords of six or more characters were submitted and the request
\* was rejected without a message: the page is idle again and shows the failure
InvitationSubmitGuardedReached ==
    /\ screen = "invitation"
    /\ formData.password = formData.confirmPassword
    /\ Len(formData.password) >= 6
    /\ nextReq = 2
    /\ lastEvent = "acceptRejected"
    /\ ~isLoading
    /\ inflight = {}
    /\ error = ErrAccept

\* C30: if every request settles, the spinner never stays: whenever isLoading
\* is true, a state follows in which isLoading is false, no request is in
\* flight and no handler is suspended
SpinnerEnds == isLoading ~> (~isLoading /\ inflight = {} /\ resume = "none")

\* a delete was confirmed and stored and its re-fetch was rejected; the handler
\* has finished and the screen is idle with the spinner off
SpinnerEndsReached ==
    /\ lastEvent = "other"
    /\ error = ErrLoad
    /\ nextReq > 2
    /\ Len(db) < totalCount
    /\ ~isLoading
    /\ Idle

=============================================================================
